---- MODULE Spec2Model ----
(***************************************************************************)
(* Model of the live log viewer of mapgenctl (src/tools/mapgenctl/tui):    *)
(* FileTail (tailer.py) reading one growing log file, EventMerger          *)
(* (merger.py) reordering the entries the render loop (views.py) feeds it, *)
(* and run_log_viewer (views.py) with its poller thread driving            *)
(* TailManager.tick (tailer.py) over the log files of one job.             *)
(*                                                                         *)
(* Bytes and characters are short strings: "nl" is \n, "cr" is \r, "c3"    *)
(* and "a9" are the two bytes of the UTF-8 encoding of U+00E9, "{" "}" "1" *)
(* and "x" are the ASCII bytes of that name.  Decoded text uses the same   *)
(* names for ASCII, "e9" for U+00E9 and "fffd" for the replacement         *)
(* character.                                                              *)
(* Time is counted in ticks of the monotonic clock; in the viewer one tick  *)
(* is the 0.25 s the poller sleeps between two calls of TailManager.tick.  *)
(***************************************************************************)
EXTENDS Integers, Sequences, FiniteSets, TLC

VARIABLES
    fileExists,   \* the tailed path exists
    fileData,     \* its content, a sequence of bytes
    tail,         \* the FileTail object: offset, partial, seq
    bytesRead,    \* history: all `data` the tail read since the source was last truncated
    truncs,       \* history: how often the source was truncated
    last,         \* history: what the last poll saw and did
    now,          \* time.monotonic(), in ticks
    log,          \* history: the entries handed to ingest, in order
    buffer,       \* EventMerger.buffer, the heap, smallest first
    mseq,         \* EventMerger._seq
    emitted,      \* history: the entries drain() returned, in order
    crashed,      \* ingest raised and ended the render loop
    mop,          \* history: the last operation on the merger
    bufferB,      \* a second EventMerger fed the same entries: its buffer,
    mseqB,        \*   its _seq,
    emittedB,     \*   the entries its drain() returned (their numbers, in order),
    crashedB,     \*   and whether its ingest raised
    jobFiles,     \* the log files of the job directory: whether each exists, its bytes
    tails,        \* TailManager.tails, in insertion order
    log_queue,    \* the Queue between the poller thread and the render loop
    running,      \* the flag of run_log_viewer both loops test
    ppc,          \* the poller thread: its position in tail_loop and tick
    pidx,         \*   the tail of self.tails.values() it is at
    pending,      \*   the entries of that tail's poll() not yet offered
    pwake,        \*   the tick of the clock at which its sleep ends
    rpc,          \* the render loop: its position
    visible_lines,\* the transcript, a deque of formatted lines
    lastPut,      \* history: how the last put_nowait ended
    environ,      \* os.environ.get("MAPGEN_LOG_ROOT"): None or the value
    cwd,          \* the working directory of the process
    tailer,       \* the TailManager constructed: its job_id and job_dir
    logger,       \* the JobLogger constructed: its job_id and path
    outbox,       \* the artifacts in the outboxes of the stages: <<stage, job id>>
    until,        \* args.until of `mapgenctl run`
    completed,    \* run_pipeline: its dict completed
    runpc,        \*   its position
    stageIdx,     \*   the stage of PIPELINE_STAGES its for loop is at
    succeeded     \* history: the stages whose artifact for the job a check found

tailVars == <<fileExists, fileData, tail, bytesRead, truncs, last>>

mergerVars == <<now, log, buffer, mseq, emitted, crashed, mop>>

pairVars == <<bufferB, mseqB, emittedB, crashedB>>

pollerVars == <<jobFiles, tails, ppc, pidx, pending, pwake, lastPut>>

renderVars == <<rpc, visible_lines>>

viewerVars == <<pollerVars, renderVars, log_queue, running>>

rootVars == <<environ, cwd, tailer, logger>>

pipelineVars == <<outbox, until, completed, runpc, stageIdx, succeeded>>

vars == <<tailVars, mergerVars, pairVars, viewerVars, rootVars, pipelineVars>>

notTail == <<mergerVars, pairVars, viewerVars, rootVars, pipelineVars>>

notMerger == <<tailVars, pairVars, viewerVars, rootVars, pipelineVars>>

notPair == <<tailVars, mergerVars, viewerVars, rootVars, pipelineVars>>

notViewer == <<tailVars, pairVars, rootVars, pipelineVars>>

notRoot == <<tailVars, mergerVars, pairVars, viewerVars, pipelineVars>>

notPipeline == <<tailVars, mergerVars, pairVars, viewerVars, rootVars>>

----------------------------------------------------------------------------
(* Bounds *)

MaxFileLen == 4
MaxTruncs == 1

(* EventMerger(max_buffer, max_delay): the buffer size above which drain   *)
(* is forced, and the ticks an entry without timestamp is held.            *)
MaxBuffer == 2
MaxDelay == 2

(* Entries handed to the merger, distinct timestamps, and the last tick of *)
(* the clock.                                                              *)
MaxIngest == 3
MaxTs == 2
MaxClock == 3

(* Entries handed to the two mergers that are compared. *)
MaxPairIngest == 2

(* The viewer: lines written to each log of the job, Queue(maxsize) and    *)
(* deque(maxlen) of run_log_viewer.                                        *)
MaxLines == 2
MaxPlainLines == 1
QueueMax == 2
MaxVisible == 2

(* The blanks between two fields of a plain-text line. *)
MaxGap == 2

(* The members of a structured record. *)
MaxMembers == 5

(* The calls of JobLogger.log. *)
MaxLogCalls == 3

(* The calls of log() that a tail reads back. *)
MaxRoundTrips == 2

(* The parts of a stage name. *)
MaxNameLen == 2

(* time.sleep(0.25) of tail_loop, in ticks of the clock. *)
PollSleep == 1

(* The last tick of the clock while the viewer is watched. *)
ViewerClock == MaxClock - 1

(* The bytes a writer appends. *)
TailBytes == {"x", "nl", "c3", "a9"}

(* The bytes of a text of ordinary characters, carriage returns and       *)
(* newlines.                                                               *)
TextBytes == {"x", "cr", "nl"}

(* The bytes a writer of structured records appends. *)
JsonBytes == {"{", "}", "1", "nl"}

----------------------------------------------------------------------------
(* Text helpers *)

Lead == "c3"
Cont == "a9"

(* bytes.decode("utf-8", errors="replace"): an ASCII byte is itself, the   *)
(* lead byte followed by its continuation byte is one character, a lead    *)
(* byte without it and a continuation byte on its own are each replaced.   *)
RECURSIVE Decode(_)
Decode(data) ==
    IF data = <<>> THEN <<>>
    ELSE IF data[1] = Lead
         THEN IF Len(data) >= 2 /\ data[2] = Cont
              THEN <<"e9">> \o Decode(SubSeq(data, 3, Len(data)))
              ELSE <<"fffd">> \o Decode(Tail(data))
         ELSE IF data[1] = Cont
              THEN <<"fffd">> \o Decode(Tail(data))
              ELSE <<data[1]>> \o Decode(Tail(data))

(* str.splitlines(keepends=False): \n, \r and \r\n end a line; a trailing  *)
(* fragment without terminator is a last line; no empty last line.         *)
RECURSIVE SplitAcc(_, _, _, _)
SplitAcc(text, i, cur, acc) ==
    IF i > Len(text) THEN (IF cur = <<>> THEN acc ELSE Append(acc, cur))
    ELSE IF text[i] = "nl" THEN SplitAcc(text, i + 1, <<>>, Append(acc, cur))
    ELSE IF text[i] = "cr"
         THEN IF i + 1 <= Len(text) /\ text[i + 1] = "nl"
              THEN SplitAcc(text, i + 2, <<>>, Append(acc, cur))
              ELSE SplitAcc(text, i + 1, <<>>, Append(acc, cur))
    ELSE SplitAcc(text, i + 1, Append(cur, text[i]), acc)

Splitlines(text) == SplitAcc(text, 1, <<>>, <<>>)

EndsWithNewline(text) == text # <<>> /\ text[Len(text)] = "nl"

Front(s) == SubSeq(s, 1, Len(s) - 1)

CountNl(s) == Cardinality({i \in 1..Len(s) : s[i] = "nl"})

(* str.upper() *)
UpperChar(c) ==
    CASE c = "l" -> "L"
      [] c = "a" -> "A"
      [] c = "m" -> "M"
      [] c = "job" -> "JOB"
      [] c = "[job=" -> "[JOB="
      [] c = "[stage=" -> "[STAGE="
      [] OTHER -> c

Upper(text) == [i \in 1..Len(text) |-> UpperChar(text[i])]

(* None where a str is expected (Optional[str]); a text is the sequence of *)
(* its characters, the empty text included.                                *)
NoneStr == <<"None">>

(* The members a structured record can hold, each written here as one      *)
(* character, with the name and the value json.loads gives it (null is     *)
(* None).                                                                  *)
MemberTokens ==
    {"ts:T1", "ts:T2", "ts:null", "level:l", "event:E", "msg:m", "stage:S", "stage:null"}

MemberName(tok) ==
    CASE tok \in {"ts:T1", "ts:T2", "ts:null"} -> "ts"
      [] tok = "level:l" -> "level"
      [] tok = "event:E" -> "event"
      [] tok = "msg:m" -> "msg"
      [] tok \in {"stage:S", "stage:null"} -> "stage"

MemberValue(tok) ==
    CASE tok = "ts:T1" -> <<"T1">>
      [] tok = "ts:T2" -> <<"T2">>
      [] tok = "level:l" -> <<"l">>
      [] tok = "event:E" -> <<"E">>
      [] tok = "msg:m" -> <<"m">>
      [] tok = "stage:S" -> <<"S">>
      [] tok \in {"ts:null", "stage:null"} -> NoneStr

(* json.loads on one line, for lines over the characters above: braces     *)
(* around members are an object, a run of the digit 1 is a number, and     *)
(* everything else raises JSONDecodeError.                                 *)
JsonLoads(line) ==
    IF /\ Len(line) >= 2
       /\ line[1] = "{"
       /\ line[Len(line)] = "}"
       /\ \A i \in 2..(Len(line) - 1) : line[i] \in MemberTokens
    THEN "object"
    ELSE IF line # <<>> /\ \A i \in 1..Len(line) : line[i] = "1" THEN "number"
    ELSE "JSONDecodeError"

(* The dict json.loads returns for an object, as the set of its items: of  *)
(* members with one name the last one counts.                              *)
JsonObject(line) ==
    {<<MemberName(line[i]), MemberValue(line[i])>> :
        i \in {k \in 2..(Len(line) - 1) :
                  \A j \in (k + 1)..(Len(line) - 1) :
                      MemberName(line[j]) # MemberName(line[k])}}

(* obj.get(name, default) *)
ObjGet(obj, name, default) ==
    IF \E it \in obj : it[1] = name
    THEN (CHOOSE it \in obj : it[1] = name)[2]
    ELSE default

----------------------------------------------------------------------------
(* FileTail *)

NewTail == [offset |-> 0, partial |-> <<>>, seq |-> 0]

(* The truncation check of _read_new_lines: a size below the stored offset *)
(* resets the offset and drops the buffered partial line.                  *)
TruncCheckKeepPartial(t, size) ==
    IF size < t.offset THEN [t EXCEPT !.offset = 0] ELSE t

TruncCheckResetSeq(t, size) ==
    IF size < t.offset THEN [t EXCEPT !.offset = 0, !.partial = <<>>, !.seq = 0] ELSE t

TruncCheck(t, size) ==
    IF size < t.offset THEN [t EXCEPT !.offset = 0, !.partial = <<>>] ELSE t

(* f.seek(offset); f.read(): the bytes from the offset to the end of file. *)
ReadDataNoSeek(content, offset) == content

ReadData(content, offset) == SubSeq(content, offset + 1, Len(content))

(* FileTail._read_new_lines, given what exists() and stat() answer and the *)
(* content the read sees: the tail after it, the bytes read, the lines.    *)
ReadNewLines(t, exists, size, content) ==
    IF ~exists THEN [tail |-> t, data |-> <<>>, lines |-> <<>>]
    ELSE LET t1 == TruncCheck(t, size)
         IN  IF size = t1.offset THEN [tail |-> t1, data |-> <<>>, lines |-> <<>>]
             ELSE LET data  == ReadData(content, t1.offset)
                      text  == t1.partial \o Decode(data)
                      lines == Splitlines(text)
                      cut   == ~EndsWithNewline(text)
                  IN  [tail  |-> [t1 EXCEPT !.offset = size,
                                            !.partial = IF cut /\ lines # <<>>
                                                        THEN lines[Len(lines)]
                                                        ELSE <<>>],
                       data  |-> data,
                       lines |-> IF cut /\ lines # <<>> THEN Front(lines) ELSE lines]

(* The loop of FileTail.poll over the lines: a line json.loads rejects is  *)
(* skipped; for any other line seq is incremented and the entry is built   *)
(* with obj.get, which raises AttributeError when obj is not an object.    *)
RECURSIVE ParseLines(_, _, _)
ParseLines(lines, seq, entries) ==
    IF lines = <<>> THEN [seq |-> seq, entries |-> entries, outcome |-> "ok"]
    ELSE LET obj == JsonLoads(Head(lines))
         IN  IF obj = "JSONDecodeError" THEN ParseLines(Tail(lines), seq, entries)
             ELSE IF obj = "object"
                  THEN ParseLines(Tail(lines), seq + 1,
                                  Append(entries, [seq |-> seq + 1, line |-> Head(lines)]))
                  ELSE [seq |-> seq + 1, entries |-> <<>>, outcome |-> "AttributeError"]

(* FileTail.poll: the tail after it, what it returns and how it ends. *)
Poll(t, exists, size, content) ==
    LET r == ReadNewLines(t, exists, size, content)
        p == ParseLines(r.lines, r.tail.seq, <<>>)
    IN  [tail    |-> [r.tail EXCEPT !.seq = p.seq],
         data    |-> r.data,
         lines   |-> r.lines,
         entries |-> p.entries,
         outcome |-> p.outcome]

----------------------------------------------------------------------------
(* The tail and its source *)

NoPoll == [op |-> "none"]

InitTail ==
    /\ fileExists = FALSE
    /\ fileData = <<>>
    /\ tail = NewTail
    /\ bytesRead = <<>>
    /\ truncs = 0
    /\ last = NoPoll

(* A writer appends one byte (open-append creates the file). *)
AppendByte(b) ==
    /\ Len(fileData) < MaxFileLen
    /\ fileExists' = TRUE
    /\ fileData' = Append(fileData, b)
    /\ last' = [op |-> "append"]
    /\ UNCHANGED <<tail, bytesRead, truncs>>
    /\ UNCHANGED notTail

(* The source is truncated or replaced by an empty file. *)
Truncate ==
    /\ fileExists
    /\ fileData # <<>>
    /\ truncs < MaxTruncs
    /\ fileData' = <<>>
    /\ truncs' = truncs + 1
    /\ bytesRead' = <<>>
    /\ last' = [op |-> "truncate"]
    /\ UNCHANGED <<fileExists, tail>>
    /\ UNCHANGED notTail

(* One call of FileTail.poll, with no write between its stat and its read. *)
PollTail ==
    LET r == Poll(tail, fileExists, Len(fileData), fileData)
    IN  /\ tail' = r.tail
        /\ bytesRead' = bytesRead \o r.data
        /\ last' = [op |-> "poll", pre |-> tail, size |-> Len(fileData),
                    data |-> r.data, lines |-> r.lines, entries |-> r.entries,
                    outcome |-> r.outcome, fault |-> "none"]
        /\ UNCHANGED <<fileExists, fileData, truncs>>
        /\ UNCHANGED notTail

(* A call of FileTail.poll in two steps, with the writer free to append    *)
(* between them.  The first step is exists(), stat() and the two checks on *)
(* the size, for a poll that goes on to read.                              *)
PollStat ==
    /\ fileExists
    /\ last.op # "stat"
    /\ Len(fileData) # TruncCheck(tail, Len(fileData)).offset
    /\ last' = [op |-> "stat", pre |-> tail, size |-> Len(fileData)]
    /\ UNCHANGED <<fileExists, fileData, tail, bytesRead, truncs>>
    /\ UNCHANGED notTail

(* The writer appends one byte while the poll is between stat() and        *)
(* read().                                                                 *)
AppendDuringPoll(b) ==
    /\ last.op = "stat"
    /\ Len(fileData) < MaxFileLen
    /\ fileData' = Append(fileData, b)
    /\ UNCHANGED <<fileExists, tail, bytesRead, truncs, last>>
    /\ UNCHANGED notTail

(* The second step: open(), seek(), read() to the end of the file as it is *)
(* now, offset = the size stat() gave, and the rest of poll().             *)
PollRead ==
    /\ last.op = "stat"
    /\ LET r == Poll(tail, TRUE, last.size, fileData)
       IN  /\ tail' = r.tail
           /\ bytesRead' = bytesRead \o r.data
           /\ last' = [op |-> "poll", pre |-> tail, size |-> last.size,
                       data |-> r.data, lines |-> r.lines, entries |-> r.entries,
                       outcome |-> r.outcome, fault |-> "none"]
    /\ UNCHANGED <<fileExists, fileData, truncs>>
    /\ UNCHANGED notTail

(* A poll whose I/O fails: stat() raises (the file vanished after the      *)
(* exists() check), or open()/read() raises after the truncation check.    *)
(* Nothing in _read_new_lines, poll or their callers catches OSError.      *)
PollIOError(where) ==
    /\ fileExists
    /\ tail' = IF where = "stat" THEN tail ELSE TruncCheck(tail, Len(fileData))
    /\ last' = [op |-> "poll", pre |-> tail, size |-> Len(fileData),
                data |-> <<>>, lines |-> <<>>, entries |-> <<>>,
                outcome |-> "OSError", fault |-> where]
    /\ UNCHANGED <<fileExists, fileData, bytesRead, truncs>>
    /\ UNCHANGED notTail

----------------------------------------------------------------------------
(* EventMerger *)

(* entry.timestamp is None (here 0) or an ISO-8601 string; the strings are *)
(* numbered 1..MaxTs in their lexicographic order.                         *)
None == 0

(* key = entry.timestamp or entry.arrival_time: a str or a float. *)
Key(e) ==
    IF e.ts # None THEN [type |-> "str", val |-> e.ts]
    ELSE [type |-> "float", val |-> e.arr]

(* (key, seq, entry) < (key, seq, entry) on tuples of one key type. *)
TupleGreater(a, b) ==
    \/ a.key.val > b.key.val
    \/ a.key.val = b.key.val /\ a.seq < b.seq

(* A comparison that breaks ties by the seq the entry got from its tail. *)
TupleLessByEntrySeq(a, b) ==
    \/ a.key.val < b.key.val
    \/ a.key.val = b.key.val /\ a.entry.seq < b.entry.seq

TupleLess(a, b) ==
    \/ a.key.val < b.key.val
    \/ a.key.val = b.key.val /\ a.seq < b.seq

(* heapq.heappush: the first comparison of the pushed tuple with a tuple   *)
(* already in the heap raises TypeError when one key is a str and the      *)
(* other a float.  A heap so built holds keys of one type only.            *)
PushRaises(buf, item) == buf # <<>> /\ buf[1].key.type # item.key.type

(* The heap is kept as the sequence of its tuples in the order heappop     *)
(* returns them; heappush places the tuple behind the tuples below it.     *)
HeapPushAtEnd(buf, item) == Append(buf, item)

HeapPushUnlessFull(buf, item) ==
    IF Len(buf) >= MaxBuffer THEN buf
    ELSE LET k == Cardinality({i \in 1..Len(buf) : TupleLess(buf[i], item)})
         IN  SubSeq(buf, 1, k) \o <<item>> \o SubSeq(buf, k + 1, Len(buf))

HeapPush(buf, item) ==
    LET k == Cardinality({i \in 1..Len(buf) : TupleLess(buf[i], item)})
    IN  SubSeq(buf, 1, k) \o <<item>> \o SubSeq(buf, k + 1, Len(buf))

(* The three conditions of drain() on the smallest tuple h of a buffer of  *)
(* n tuples at time t.                                                     *)
ReadyIgnoringDelay(h, n, t) == TRUE

(* The conditions without the first, the forced drain. *)
ReadyWithoutOverflow(h, n, t) ==
    \/ h.entry.ts # None
    \/ h.entry.arr <= t - MaxDelay

Ready(h, n, t) ==
    \/ n > MaxBuffer
    \/ h.entry.ts # None
    \/ h.entry.arr <= t - MaxDelay

(* The loop of drain(): the buffer left and the entries returned.  Each    *)
(* returned entry is noted with its age, capped at max_delay, the number   *)
(* of entries ingested so far and whether the buffer was above max_buffer  *)
(* when it was popped.                                                     *)
Min(a, b) == IF a <= b THEN a ELSE b

RECURSIVE DrainLoop(_, _, _, _)
DrainLoop(buf, out, t, n) ==
    IF buf = <<>> \/ ~Ready(buf[1], Len(buf), t)
    THEN [buffer |-> buf, out |-> out]
    ELSE DrainLoop(Tail(buf),
                   Append(out, [id |-> buf[1].seq, ts |-> buf[1].entry.ts,
                                arr |-> buf[1].entry.arr,
                                age |-> Min(t - buf[1].entry.arr, MaxDelay),
                                nIn |-> n,
                                over |-> Len(buf) > MaxBuffer]),
                   t, n)

(* The last tick at which an entry arrives, so that the clock can still    *)
(* run max_delay past it.                                                  *)
LastArrival == MaxClock - MaxDelay

LastArr == IF log = <<>> THEN 0 ELSE log[Len(log)].arr

(* The entries the render loop can take from the queue next: arrival times *)
(* are monotonic readings of one poller thread, queued in that order.      *)
NextEntries ==
    [ts : {None} \cup (1..MaxTs), arr : {a \in LastArr..now : a <= LastArrival}]

InitMerger ==
    /\ now = 0
    /\ log = <<>>
    /\ buffer = <<>>
    /\ mseq = 0
    /\ emitted = <<>>
    /\ crashed = FALSE
    /\ mop = "none"

(* The monotonic clock advances. *)
Tick ==
    /\ now < MaxClock
    /\ now' = now + 1
    /\ mop' = "tick"
    /\ UNCHANGED <<log, buffer, mseq, emitted, crashed>>
    /\ UNCHANGED notMerger

(* merger.ingest(entry) in the render loop. *)
Ingest(e) ==
    LET item == [key |-> Key(e), seq |-> mseq + 1, entry |-> e]
    IN  /\ ~crashed
        /\ Len(log) < MaxIngest
        /\ ~PushRaises(buffer, item)
        /\ log' = Append(log, e)
        /\ mseq' = mseq + 1
        /\ buffer' = HeapPush(buffer, item)
        /\ mop' = "ingest"
        /\ UNCHANGED <<now, emitted, crashed>>
        /\ UNCHANGED notMerger

(* merger.ingest(entry) raising TypeError out of heappush: run_log_viewer  *)
(* catches Empty only, so the render loop ends with the exception.         *)
IngestRaises(e) ==
    LET item == [key |-> Key(e), seq |-> mseq + 1, entry |-> e]
    IN  /\ ~crashed
        /\ Len(log) < MaxIngest
        /\ PushRaises(buffer, item)
        /\ log' = Append(log, e)
        /\ mseq' = mseq + 1
        /\ buffer' = Append(buffer, item)
        /\ crashed' = TRUE
        /\ mop' = "raise"
        /\ UNCHANGED <<now, emitted>>
        /\ UNCHANGED notMerger

(* merger.drain() in the render loop. *)
Drain ==
    LET r == DrainLoop(buffer, <<>>, now, mseq)
    IN  /\ ~crashed
        /\ buffer' = r.buffer
        /\ emitted' = emitted \o r.out
        /\ mop' = "drain"
        /\ UNCHANGED <<now, log, mseq, crashed>>
        /\ UNCHANGED notMerger

----------------------------------------------------------------------------
(* Two mergers fed the same entries in the same order, each drained on its *)
(* own schedule: the second one ingests what the first one has ingested.   *)

InitPair ==
    /\ bufferB = <<>>
    /\ mseqB = 0
    /\ emittedB = <<>>
    /\ crashedB = FALSE

IngestB ==
    /\ ~crashedB
    /\ mseqB < Len(log)
    /\ LET e    == log[mseqB + 1]
           item == [key |-> Key(e), seq |-> mseqB + 1, entry |-> e]
       IN  /\ ~PushRaises(bufferB, item)
           /\ bufferB' = HeapPush(bufferB, item)
    /\ mseqB' = mseqB + 1
    /\ UNCHANGED <<emittedB, crashedB>>
    /\ UNCHANGED notPair

IngestRaisesB ==
    /\ ~crashedB
    /\ mseqB < Len(log)
    /\ LET e    == log[mseqB + 1]
           item == [key |-> Key(e), seq |-> mseqB + 1, entry |-> e]
       IN  /\ PushRaises(bufferB, item)
           /\ bufferB' = Append(bufferB, item)
    /\ mseqB' = mseqB + 1
    /\ crashedB' = TRUE
    /\ UNCHANGED emittedB
    /\ UNCHANGED notPair

DrainB ==
    LET r == DrainLoop(bufferB, <<>>, now, mseqB)
    IN  /\ ~crashedB
        /\ bufferB' = r.buffer
        /\ emittedB' = emittedB \o [i \in 1..Len(r.out) |-> r.out[i].id]
        /\ UNCHANGED <<mseqB, crashedB>>
        /\ UNCHANGED notPair

----------------------------------------------------------------------------
(* PlainTextTail *)

(* The characters of a line of mapgenctl.log: "sp" a blank; "T1" and "T2"  *)
(* timestamps and "-" a hyphen, which are neither blank nor word           *)
(* characters; the literals "[job=", "[stage=" and "]"; and the words      *)
(* "job" (the id of the job watched), "a", "S", "L", "l" and "m".          *)
Space == {"sp"}

Word == {"job", "a", "S", "L", "l", "m"}

(* The id of the job watched, which run_log_viewer gives TailManager and   *)
(* TailManager every tail, and main() the JobLogger.                       *)
JobId == <<"job">>

(* The text with the level as it was passed. *)
JobLoggerLineLevelAsGiven(ts, job_id, stage, level, message) ==
    ts \o <<"sp", "[job=">> \o job_id \o <<"]", "sp", "[stage=">> \o stage
       \o <<"]", "sp">> \o level \o <<"sp">> \o message \o <<"nl">>

(* The text JobLogger.log writes at the time ts. *)
JobLoggerLine(ts, job_id, stage, level, message) ==
    ts \o <<"sp", "[job=">> \o job_id \o <<"]", "sp", "[stage=">> \o stage
       \o <<"]", "sp">> \o Upper(level) \o <<"sp">> \o message \o <<"nl">>

(* The line JobLogger writes for the job watched. *)
PlainRecord == JobLoggerLine(<<"T1">>, JobId, <<"S">>, <<"L">>, <<"m">>)

JsonRecord == <<"{", "}", "nl">>

JsonNumber == <<"1", "nl">>

(* The records of a stage that stamps them. *)
StampedRecords == {<<"{", "ts:T1", "}", "nl">>, <<"{", "ts:T2", "}", "nl">>}

(* The position after the longest run, from position i, of characters in   *)
(* (not in) the set: where a greedy + or * of the pattern ends.            *)
SkipIn(line, i, chars) ==
    CHOOSE j \in i..(Len(line) + 1) :
        /\ \A k \in i..(j - 1) : line[k] \in chars
        /\ j = Len(line) + 1 \/ line[j] \notin chars

SkipNotIn(line, i, chars) ==
    CHOOSE j \in i..(Len(line) + 1) :
        /\ \A k \in i..(j - 1) : line[k] \notin chars
        /\ j = Len(line) + 1 \/ line[j] \in chars

(* LINE_PATTERN.match(line): \S+ \s+ [job= [^]]+ ] \s+ [stage= [^]]+ ]     *)
(* \s+ \w+ \s+ .* from the start of the line, with the groups of the       *)
(* match.  Each repetition is followed by a character outside its class,   *)
(* so the match, if any, is the greedy one.                                *)
LinePattern(line) ==
    LET n == Len(line)
        a == SkipNotIn(line, 1, Space)
        b == SkipIn(line, a, Space)
        c == SkipNotIn(line, b + 1, {"]"})
        d == SkipIn(line, c + 1, Space)
        e == SkipNotIn(line, d + 1, {"]"})
        f == SkipIn(line, e + 1, Space)
        g == SkipIn(line, f, Word)
        h == SkipIn(line, g, Space)
    IN  IF /\ a > 1
           /\ b > a /\ b <= n /\ line[b] = "[job="
           /\ c > b + 1 /\ c <= n
           /\ d > c + 1 /\ d <= n /\ line[d] = "[stage="
           /\ e > d + 1 /\ e <= n
           /\ f > e + 1
           /\ g > f
           /\ h > g
        THEN [matched |-> TRUE,
              ts      |-> SubSeq(line, 1, a - 1),
              job_id  |-> SubSeq(line, b + 1, c - 1),
              stage   |-> SubSeq(line, d + 1, e - 1),
              level   |-> SubSeq(line, f, g - 1),
              msg     |-> SubSeq(line, h, n)]
        ELSE [matched |-> FALSE]

(* A timestamp text as the merger compares it: the ISO strings T1 and T2   *)
(* are numbered in their order, any other text is numbered after them.     *)
Timestamp(text) ==
    IF text = <<"T1">> THEN 1 ELSE IF text = <<"T2">> THEN 2 ELSE 3

(* The text of a timestamp so numbered. *)
TimestampText(ts) ==
    IF ts = 1 THEN <<"T1">> ELSE IF ts = 2 THEN <<"T2">> ELSE <<"T1", "-">>

RECURSIVE PlainParseLines(_, _, _)

(* A loop that ends at the first line that does not match. *)
PlainParseLinesBreak(lines, seq, entries) ==
    IF lines = <<>> THEN [seq |-> seq, entries |-> entries, outcome |-> "ok"]
    ELSE IF ~LinePattern(Head(lines)).matched
         THEN [seq |-> seq, entries |-> entries, outcome |-> "ok"]
         ELSE PlainParseLines(Tail(lines), seq + 1,
                              Append(entries, [seq |-> seq + 1, line |-> Head(lines)]))

(* The loop of PlainTextTail.poll over the lines: a line that does not     *)
(* match is skipped, a line that matches gets the next seq.                *)
PlainParseLines(lines, seq, entries) ==
    IF lines = <<>> THEN [seq |-> seq, entries |-> entries, outcome |-> "ok"]
    ELSE IF ~LinePattern(Head(lines)).matched
         THEN PlainParseLines(Tail(lines), seq, entries)
         ELSE PlainParseLines(Tail(lines), seq + 1,
                              Append(entries, [seq |-> seq + 1, line |-> Head(lines)]))

(* An entry whose event and raw are the text of the line. *)
PlainEntryOfLine(tl, p, t) ==
    LET match == LinePattern(p.line)
    IN  [tail   |-> tl.name,
         job_id |-> match.job_id,
         stage  |-> match.stage,
         ts     |-> Timestamp(match.ts),
         level  |-> match.level,
         event  |-> p.line,
         msg    |-> match.msg,
         raw    |-> [type |-> "str", val |-> p.line],
         arr    |-> t,
         seq    |-> p.seq]

(* The LogEntry values the two kinds of tail build, at time t; `tail` is   *)
(* the tail that built the entry and `ts` the timestamp; `raw` is a dict,  *)
(* given as the set of its items, with its type since raw may be of any.   *)
PlainEntry(tl, p, t) ==
    LET match == LinePattern(p.line)
    IN  [tail   |-> tl.name,
         job_id |-> match.job_id,
         stage  |-> match.stage,
         ts     |-> Timestamp(match.ts),
         level  |-> match.level,
         event  |-> NoneStr,
         msg    |-> match.msg,
         raw    |-> [type |-> "dict", val |-> {<<"line", p.line>>}],
         arr    |-> t,
         seq    |-> p.seq]

(* An entry that keeps the stage of its tail whatever the record says. *)
JsonEntryOfTailStage(tl, p, t) ==
    LET obj == JsonObject(p.line)
    IN  [tail   |-> tl.name,
         job_id |-> tl.job_id,
         stage  |-> tl.name,
         ts     |-> IF ObjGet(obj, "ts", NoneStr) = NoneStr THEN None
                    ELSE Timestamp(ObjGet(obj, "ts", NoneStr)),
         level  |-> ObjGet(obj, "level", NoneStr),
         event  |-> ObjGet(obj, "event", NoneStr),
         msg    |-> ObjGet(obj, "msg", NoneStr),
         raw    |-> [type |-> "dict", val |-> obj],
         arr    |-> t,
         seq    |-> p.seq]

JsonEntry(tl, p, t) ==
    LET obj == JsonObject(p.line)
    IN  [tail   |-> tl.name,
         job_id |-> tl.job_id,
         stage  |-> ObjGet(obj, "stage", tl.name),
         ts     |-> IF ObjGet(obj, "ts", NoneStr) = NoneStr THEN None
                    ELSE Timestamp(ObjGet(obj, "ts", NoneStr)),
         level  |-> ObjGet(obj, "level", NoneStr),
         event  |-> ObjGet(obj, "event", NoneStr),
         msg    |-> ObjGet(obj, "msg", NoneStr),
         raw    |-> [type |-> "dict", val |-> obj],
         arr    |-> t,
         seq    |-> p.seq]

(* tail.poll() for a tail of TailManager at time t: a PlainTextTail or a   *)
(* FileTail, both on _read_new_lines.                                      *)
TailPoll(tl, exists, content, t) ==
    IF tl.kind = "plain"
    THEN LET r == ReadNewLines(tl, exists, Len(content), content)
             p == PlainParseLines(r.lines, r.tail.seq, <<>>)
         IN  [tail    |-> [r.tail EXCEPT !.seq = p.seq],
              lines   |-> r.lines,
              entries |-> [i \in 1..Len(p.entries) |-> PlainEntry(tl, p.entries[i], t)],
              outcome |-> p.outcome]
    ELSE LET r == Poll(tl, exists, Len(content), content)
         IN  [tail    |-> r.tail,
              lines   |-> r.lines,
              entries |-> [i \in 1..Len(r.entries) |-> JsonEntry(tl, r.entries[i], t)],
              outcome |-> r.outcome]

----------------------------------------------------------------------------
(* TailManager *)

(* File names are the sequences of their parts between dots. *)
MapgenctlLog == <<"mapgenctl", "log">>

HeightmapJsonl == <<"heightmap", "log", "jsonl">>

AllFiles == {MapgenctlLog, HeightmapJsonl}

(* Two more files the pattern *.log.jsonl matches. *)
MapgenctlJsonl == <<"mapgenctl", "log", "jsonl">>

HeightmapLogJsonl == <<"heightmap", "log", "log", "jsonl">>

DirFiles == AllFiles \cup {MapgenctlJsonl, HeightmapLogJsonl}

(* job_dir.glob("*.log.jsonl") *)
IsStageLog(path) ==
    /\ Len(path) >= 3
    /\ path[Len(path) - 1] = "log"
    /\ path[Len(path)] = "jsonl"

(* path.stem.replace(".log", ""): the name without its last suffix and     *)
(* without any part "log" that follows a dot.                              *)
RECURSIVE DropLogParts(_, _)
DropLogParts(parts, i) ==
    IF i > Len(parts) THEN <<>>
    ELSE IF i > 1 /\ parts[i] = "log" THEN DropLogParts(parts, i + 1)
    ELSE <<parts[i]>> \o DropLogParts(parts, i + 1)

StageOf(path) == DropLogParts(Front(path), 1)

Tracked(ts, name) == \E i \in 1..Len(ts) : ts[i].name = name

NewManagedTail(name, path, kind) ==
    [name |-> name, file |-> path, kind |-> kind, job_id |-> JobId,
     offset |-> 0, partial |-> <<>>, seq |-> 0]

(* A discovery that never finds the orchestrator's log. *)
DiscoverPlainNever(ts, files) == ts

(* The first discovery of tick(): the orchestrator's plain-text log. *)
DiscoverPlain(ts, files) ==
    IF files[MapgenctlLog].exists /\ ~Tracked(ts, <<"mapgenctl">>)
    THEN Append(ts, NewManagedTail(<<"mapgenctl">>, MapgenctlLog, "plain"))
    ELSE ts

(* A discovery that builds a new tail for every stage log it sees. *)
DiscoverStagesAnew(ts, paths) ==
    LET kept == SelectSeq(ts, LAMBDA tl : tl.kind = "plain")
        new  == [i \in 1..Len(paths) |->
                    NewManagedTail(StageOf(paths[i]), paths[i], "jsonl")]
    IN  kept \o new

(* The second: the stage logs in the order glob() yields them. *)
RECURSIVE DiscoverStages(_, _)
DiscoverStages(ts, paths) ==
    IF paths = <<>> THEN ts
    ELSE LET stage == StageOf(Head(paths))
         IN  DiscoverStages(IF Tracked(ts, stage) THEN ts
                            ELSE Append(ts, NewManagedTail(stage, Head(paths), "jsonl")),
                            Tail(paths))

(* The orders in which glob() can yield the stage logs that exist. *)
GlobOrders(files) ==
    LET found == {f \in DOMAIN files : files[f].exists /\ IsStageLog(f)}
        n     == Cardinality(found)
    IN  {s \in [1..n -> found] : \A i, j \in 1..n : i # j => s[i] # s[j]}

(* out_queue.put_nowait(entry) on a Queue(maxsize): the queue after it and *)
(* the exception it raises.                                                *)
PutUnbounded(q, e) == [queue |-> Append(q, e), raised |-> "none"]

PutDropOldest(q, e) ==
    IF Len(q) >= QueueMax THEN [queue |-> Append(Tail(q), e), raised |-> "none"]
    ELSE [queue |-> Append(q, e), raised |-> "none"]

(* A queue that hands out the newest entry first. *)
PutNowaitLifo(q, e) ==
    IF Len(q) >= QueueMax THEN [queue |-> q, raised |-> "Full"]
    ELSE [queue |-> <<e>> \o q, raised |-> "none"]

PutNowait(q, e) ==
    IF Len(q) >= QueueMax THEN [queue |-> q, raised |-> "Full"]
    ELSE [queue |-> Append(q, e), raised |-> "none"]

----------------------------------------------------------------------------
(* The transcript *)

(* deque(maxlen).append(line) *)
DequeAppendDropNewest(d, line) ==
    IF Len(d) >= MaxVisible THEN d ELSE Append(d, line)

DequeAppend(d, line) ==
    IF Len(d) >= MaxVisible THEN Append(Tail(d), line) ELSE Append(d, line)

(* `value or default` for an Optional[str]: None and "" are false. *)
OrElse(text, default) == IF text \in {NoneStr, <<>>} THEN default ELSE text

(* The display line of an entry: its fields in the order of the f-string, *)
(* with the placeholders for a missing timestamp, stage, level and         *)
(* message.                                                                *)
FormatLine(e) ==
    [ts    |-> IF e.ts = None THEN <<"--------">> ELSE TimestampText(e.ts),
     stage |-> OrElse(e.stage, <<"unknown">>),
     level |-> Upper(OrElse(e.level, <<"info">>)),
     msg   |-> OrElse(e.msg, <<>>)]

RECURSIVE AppendAll(_, _)
AppendAll(d, lines) ==
    IF lines = <<>> THEN d
    ELSE AppendAll(DequeAppend(d, Head(lines)), Tail(lines))

----------------------------------------------------------------------------
(* run_log_viewer: the poller thread and the render loop *)

NoFile == [exists |-> FALSE, data |-> <<>>]

InitViewer ==
    /\ jobFiles = [f \in AllFiles |-> NoFile]
    /\ tails = <<>>
    /\ log_queue = <<>>
    /\ running = TRUE
    /\ ppc = "top"
    /\ pidx = 0
    /\ pending = <<>>
    /\ pwake = 0
    /\ rpc = "top"
    /\ visible_lines = <<>>
    /\ lastPut = "none"

(* The same start in a job directory that can hold any of DirFiles. *)
InitJobDir ==
    /\ jobFiles = [f \in DirFiles |-> NoFile]
    /\ tails = <<>>
    /\ log_queue = <<>>
    /\ running = TRUE
    /\ ppc = "top"
    /\ pidx = 0
    /\ pending = <<>>
    /\ pwake = 0
    /\ rpc = "top"
    /\ visible_lines = <<>>
    /\ lastPut = "none"

(* While the viewer runs and its poller reads, a writer appends one whole  *)
(* line to a log of the job (open-append creates the file): JobLogger.log  *)
(* for mapgenctl.log, a stage for its structured log.                      *)
AppendLine(f, line) ==
    /\ rpc # "exited"
    /\ ppc \notin {"done", "dead"}
    /\ CountNl(jobFiles[f].data) < (IF f = MapgenctlLog THEN MaxPlainLines ELSE MaxLines)
    /\ jobFiles' = [jobFiles EXCEPT ![f] = [exists |-> TRUE, data |-> @.data \o line]]
    /\ UNCHANGED <<tails, ppc, pidx, pending, pwake, lastPut>>
    /\ UNCHANGED <<renderVars, log_queue, running>>
    /\ UNCHANGED <<mergerVars, notViewer>>

(* tail_loop: `while running` found false, the thread ends. *)
PStop ==
    /\ ppc = "top"
    /\ ~running
    /\ ppc' = "done"
    /\ UNCHANGED <<jobFiles, tails, pidx, pending, pwake, lastPut>>
    /\ UNCHANGED <<renderVars, log_queue, running>>
    /\ UNCHANGED <<mergerVars, notViewer>>

(* tail_loop: `while running` found true; tick() starts with discovery. *)
PTickStart ==
    /\ ppc = "top"
    /\ running
    /\ \E order \in GlobOrders(jobFiles) :
          tails' = DiscoverStages(DiscoverPlain(tails, jobFiles), order)
    /\ ppc' = "poll"
    /\ pidx' = 1
    /\ UNCHANGED <<jobFiles, pending, pwake, lastPut>>
    /\ UNCHANGED <<renderVars, log_queue, running>>
    /\ UNCHANGED <<mergerVars, notViewer>>

(* tick(): tail.poll() of the next tail returns its entries. *)
PPoll ==
    /\ ppc = "poll"
    /\ pidx <= Len(tails)
    /\ LET tl == tails[pidx]
           r  == TailPoll(tl, jobFiles[tl.file].exists, jobFiles[tl.file].data, now)
       IN  /\ r.outcome = "ok"
           /\ tails' = [tails EXCEPT ![pidx] = r.tail]
           /\ pending' = r.entries
           /\ ppc' = IF r.entries = <<>> THEN "poll" ELSE "offer"
           /\ pidx' = IF r.entries = <<>> THEN pidx + 1 ELSE pidx
    /\ UNCHANGED <<jobFiles, pwake, lastPut>>
    /\ UNCHANGED <<renderVars, log_queue, running>>
    /\ UNCHANGED <<mergerVars, notViewer>>

(* tick(): tail.poll() raises; neither tick nor tail_loop catches it, the  *)
(* thread ends.                                                            *)
PPollRaises ==
    /\ ppc = "poll"
    /\ pidx <= Len(tails)
    /\ LET tl == tails[pidx]
           r  == TailPoll(tl, jobFiles[tl.file].exists, jobFiles[tl.file].data, now)
       IN  /\ r.outcome # "ok"
           /\ tails' = [tails EXCEPT ![pidx] = r.tail]
    /\ ppc' = "dead"
    /\ UNCHANGED <<jobFiles, pidx, pending, pwake, lastPut>>
    /\ UNCHANGED <<renderVars, log_queue, running>>
    /\ UNCHANGED <<mergerVars, notViewer>>

(* tick(): out_queue.put_nowait(entry) for the next entry of the poll, the *)
(* except clause swallowing what it raises.                                *)
POffer ==
    /\ ppc = "offer"
    /\ LET r == PutNowait(log_queue, Head(pending))
       IN  /\ log_queue' = r.queue
           /\ lastPut' = r.raised
    /\ pending' = Tail(pending)
    /\ ppc' = IF Tail(pending) = <<>> THEN "poll" ELSE "offer"
    /\ pidx' = IF Tail(pending) = <<>> THEN pidx + 1 ELSE pidx
    /\ UNCHANGED <<jobFiles, tails, pwake>>
    /\ UNCHANGED <<renderVars, running>>
    /\ UNCHANGED <<mergerVars, notViewer>>

(* tick() returns after the last tail; tail_loop sleeps 0.25 s. *)
PTickEnd ==
    /\ ppc = "poll"
    /\ pidx > Len(tails)
    /\ ppc' = "sleep"
    /\ pwake' = now + PollSleep
    /\ pidx' = 0
    /\ UNCHANGED <<jobFiles, tails, pending, lastPut>>
    /\ UNCHANGED <<renderVars, log_queue, running>>
    /\ UNCHANGED <<mergerVars, notViewer>>

(* The sleep of tail_loop is over. *)
PWake ==
    /\ ppc = "sleep"
    /\ now >= pwake
    /\ ppc' = "top"
    /\ pwake' = 0
    /\ UNCHANGED <<jobFiles, tails, pidx, pending, lastPut>>
    /\ UNCHANGED <<renderVars, log_queue, running>>
    /\ UNCHANGED <<mergerVars, notViewer>>

(* The render loop: getch() returns q, Q or Ctrl+C. *)
RQuit ==
    /\ rpc = "top"
    /\ running' = FALSE
    /\ rpc' = "exitsleep"
    /\ UNCHANGED <<pollerVars, visible_lines, log_queue>>
    /\ UNCHANGED <<mergerVars, notViewer>>

(* The render loop: getch() returns no key or another key. *)
RNoKey ==
    /\ rpc = "top"
    /\ rpc' = "intake"
    /\ UNCHANGED <<pollerVars, visible_lines, log_queue, running>>
    /\ UNCHANGED <<mergerVars, notViewer>>

(* The render loop: log_queue.get_nowait() and merger.ingest(entry). *)
RGet ==
    /\ rpc = "intake"
    /\ log_queue # <<>>
    /\ LET e    == Head(log_queue)
           item == [key |-> Key(e), seq |-> mseq + 1, entry |-> e]
       IN  /\ ~PushRaises(buffer, item)
           /\ log' = Append(log, e)
           /\ buffer' = HeapPush(buffer, item)
    /\ mseq' = mseq + 1
    /\ log_queue' = Tail(log_queue)
    /\ mop' = "ingest"
    /\ UNCHANGED <<now, emitted, crashed>>
    /\ UNCHANGED <<pollerVars, renderVars, running>>
    /\ UNCHANGED notViewer

(* The same with ingest raising TypeError, which the `except Empty` of the *)
(* loop does not catch: run_log_viewer ends with the exception.            *)
RGetRaises ==
    /\ rpc = "intake"
    /\ log_queue # <<>>
    /\ LET e    == Head(log_queue)
           item == [key |-> Key(e), seq |-> mseq + 1, entry |-> e]
       IN  /\ PushRaises(buffer, item)
           /\ log' = Append(log, e)
           /\ buffer' = Append(buffer, item)
    /\ mseq' = mseq + 1
    /\ log_queue' = Tail(log_queue)
    /\ crashed' = TRUE
    /\ mop' = "raise"
    /\ rpc' = "raised"
    /\ UNCHANGED <<now, emitted>>
    /\ UNCHANGED <<pollerVars, visible_lines, running>>
    /\ UNCHANGED notViewer

(* The render loop: get_nowait() raises Empty, which ends the intake;      *)
(* merger.drain(), each entry formatted and appended to visible_lines; the *)
(* screen redrawn; time.sleep(0.05); back to `while running`.  Of the      *)
(* entries returned, `emitted` keeps the numbers the merger gave them.     *)
RFrame ==
    /\ rpc = "intake"
    /\ log_queue = <<>>
    /\ LET r == DrainLoop(buffer, <<>>, now, mseq)
       IN  /\ buffer' = r.buffer
           /\ emitted' = emitted \o [i \in 1..Len(r.out) |-> r.out[i].id]
           /\ visible_lines' =
                  AppendAll(visible_lines,
                            [i \in 1..Len(r.out) |-> FormatLine(log[r.out[i].id])])
    /\ mop' = "drain"
    /\ rpc' = "top"
    /\ UNCHANGED <<now, log, mseq, crashed>>
    /\ UNCHANGED <<pollerVars, log_queue, running>>
    /\ UNCHANGED notViewer

(* After the loop: time.sleep(0.1), then run_log_viewer returns. *)
RReturn ==
    /\ rpc = "exitsleep"
    /\ rpc' = "returned"
    /\ UNCHANGED <<pollerVars, visible_lines, log_queue, running>>
    /\ UNCHANGED <<mergerVars, notViewer>>

(* main(): sys.exit(0) after run_log_viewer returned, or the exception of  *)
(* the render loop ending the main thread: the poller, a daemon thread,    *)
(* ends where it stands.                                                   *)
ProcessExit ==
    /\ rpc \in {"returned", "raised"}
    /\ rpc' = "exited"
    /\ ppc' = IF ppc \in {"done", "dead"} THEN ppc ELSE "killed"
    /\ UNCHANGED <<jobFiles, tails, pidx, pending, pwake, lastPut>>
    /\ UNCHANGED <<visible_lines, log_queue, running>>
    /\ UNCHANGED <<mergerVars, notViewer>>

----------------------------------------------------------------------------
(* One tail of TailManager on a file written at once *)

(* A tail of TailManager in the state of the tail t, and back. *)
AsManaged(t, name, path, kind) ==
    [NewManagedTail(name, path, kind) EXCEPT
        !.offset = t.offset, !.partial = t.partial, !.seq = t.seq]

Position(tl) == [offset |-> tl.offset, partial |-> tl.partial, seq |-> tl.seq]

Blanks(k) == [i \in 1..k |-> "sp"]

Gaps == {Blanks(k) : k \in 0..MaxGap}

(* What a writer other than JobLogger may put where the five fields of a   *)
(* line belong.                                                            *)
TsParts == {<<>>, <<"T1">>, <<"T2", "-">>}

JobParts ==
    {<<"[job=", "job", "]">>, <<"[job=", "a", "sp", "a", "]">>, <<"[job=", "]">>,
     <<"[job=", "a">>}

StageParts ==
    {<<"[stage=", "S", "]">>, <<"[stage=", "a", "-", "]">>, <<"[job=", "S", "]">>}

LevelParts == {<<"L">>, <<>>, <<"l", "-">>}

MsgParts == {<<>>, <<"m", "sp", "m">>, <<"[job=">>}

(* mapgenctl.log is written: one line of such parts, then possibly a line  *)
(* of JobLogger.                                                           *)
WritePlain(line, rest) ==
    /\ ~fileExists
    /\ fileExists' = TRUE
    /\ fileData' = line \o <<"nl">> \o rest
    /\ last' = [op |-> "append"]
    /\ UNCHANGED <<tail, bytesRead, truncs>>
    /\ UNCHANGED notTail

(* One call of PlainTextTail.poll by the tail of mapgenctl.log. *)
PollPlain ==
    /\ fileExists
    /\ LET tl == AsManaged(tail, <<"mapgenctl">>, MapgenctlLog, "plain")
           r  == TailPoll(tl, fileExists, fileData, now)
       IN  /\ tail' = Position(r.tail)
           /\ last' = [op |-> "pollplain", tl |-> tl, lines |-> r.lines,
                       entries |-> r.entries, outcome |-> r.outcome]
    /\ UNCHANGED <<fileExists, fileData, bytesRead, truncs>>
    /\ UNCHANGED notTail

(* What the callers of JobLogger.log pass: a stage, a level in either     *)
(* case, and a message of one line, which may be empty.                    *)
LogStages == {<<"S">>}

LogLevels == {<<"l">>, <<"L">>}

LogMessages == {<<>>, <<"m">>, <<"m", "sp", "m">>}

(* open("w") and write(text): the file holds the text only. *)
OpenTruncateWrite(content, text) == text

(* open("a") and write(text): the text goes behind what the file holds. *)
OpenAppendWrite(content, text) == content \o text

(* The calls made so far: each wrote one "[job=", the messages holding     *)
(* none.                                                                   *)
LogCalls == Cardinality({i \in 1..Len(fileData) : fileData[i] = "[job="})

(* JobLogger.log(stage, level, message) at the time ts: the file is opened *)
(* for appending, which creates it, and the text is written.               *)
JobLog(ts, stage, level, message) ==
    /\ LogCalls < MaxLogCalls
    /\ fileExists' = TRUE
    /\ fileData' = OpenAppendWrite(fileData,
                                   JobLoggerLine(ts, JobId, stage, level, message))
    /\ last' = [op |-> "log", before |-> fileData, ts |-> ts, stage |-> stage,
                level |-> level, message |-> message]
    /\ UNCHANGED <<tail, bytesRead, truncs>>
    /\ UNCHANGED notTail

(* What any caller may pass to JobLogger(job_id) and to log(): the values  *)
(* of the callers of this repository, and values with one argument out of  *)
(* their range: a "]" in the job id or the stage, an empty stage, a level  *)
(* that is empty or holds a hyphen, a message that starts with a blank,    *)
(* ends with one or holds a line break.                                    *)
UsualCalls ==
    [job_id : {JobId}, stage : LogStages, level : LogLevels,
     message : LogMessages \cup {<<"m", "sp">>}]

UnusualCalls ==
    {[job_id |-> <<"job", "]", "a">>, stage |-> <<"S">>, level |-> <<"L">>, message |-> <<"m">>],
     [job_id |-> JobId, stage |-> <<"S", "]", "a">>, level |-> <<"L">>, message |-> <<"m">>],
     [job_id |-> JobId, stage |-> <<>>, level |-> <<"L">>, message |-> <<"m">>],
     [job_id |-> JobId, stage |-> <<"S">>, level |-> <<>>, message |-> <<"m", "sp", "m">>],
     [job_id |-> JobId, stage |-> <<"S">>, level |-> <<"l", "-">>, message |-> <<"m">>],
     [job_id |-> JobId, stage |-> <<"S">>, level |-> <<"L">>, message |-> <<"sp", "m">>],
     [job_id |-> JobId, stage |-> <<"S">>, level |-> <<"L">>, message |-> <<"m", "nl", "m">>]}

AnyCalls == UsualCalls \cup UnusualCalls

(* The lines in the file are those of one JobLogger, the one of job_id:    *)
(* job_log_path(job_id) is a file of its own for every job id.             *)
LogOfJob(job_id) ==
    \A i \in 1..Len(fileData) :
        fileData[i] = "[job=" =>
            /\ SubSeq(fileData, i + 1, i + Len(job_id)) = job_id
            /\ SubSeq(fileData, i + Len(job_id) + 1, i + Len(job_id) + 2) = <<"]", "sp">>

(* JobLogger(c.job_id).log(c.stage, c.level, c.message) at the time ts. *)
LogCall(ts, c) ==
    /\ LogCalls < MaxRoundTrips
    /\ LogOfJob(c.job_id)
    /\ fileExists' = TRUE
    /\ fileData' = OpenAppendWrite(fileData,
                                   JobLoggerLine(ts, c.job_id, c.stage, c.level, c.message))
    /\ last' = [op |-> "call", before |-> fileData, ts |-> ts, job_id |-> c.job_id,
                stage |-> c.stage, level |-> c.level, message |-> c.message]
    /\ UNCHANGED <<tail, bytesRead, truncs>>
    /\ UNCHANGED notTail

(* PIPELINE_STAGES, in its order. *)
PipelineStages == << <<"heightmap">>, <<"tiler">>, <<"weather">>, <<"tree", "planter">> >>

StageSet == {PipelineStages[i] : i \in 1..Len(PipelineStages)}

(* The job run_pipeline submitted, and a job submitted by another run. *)
OtherJobId == <<"a">>

(* A check that takes the artifact of any job for the artifact of this. *)
StageCompletionCheckOfAnyJob(stage, job_id) ==
    \E j \in {JobId, OtherJobId} : <<stage, j>> \in outbox

(* STAGE_COMPLETION_CHECKS[stage](job_id): the artifact of the job exists  *)
(* in the outbox of the stage.                                             *)
StageCompletionCheck(stage, job_id) == <<stage, job_id>> \in outbox

(* `mapgenctl run --until <stage>` before run_pipeline is called. *)
InitPipeline ==
    /\ outbox = {}
    /\ until = PipelineStages[Len(PipelineStages)]
    /\ completed = [stage \in StageSet |-> FALSE]
    /\ runpc = "start"
    /\ stageIdx = 0
    /\ succeeded = {}

(* The same with any of the choices of --until; the outboxes may hold the  *)
(* artifacts of another job.                                               *)
InitAnyPipeline ==
    /\ outbox \in SUBSET {<<PipelineStages[1], OtherJobId>>,
                           <<PipelineStages[Len(PipelineStages)], OtherJobId>>}
    /\ until \in StageSet
    /\ completed = [stage \in StageSet |-> FALSE]
    /\ runpc = "start"
    /\ stageIdx = 0
    /\ succeeded = {}

(* A stage writes its artifact for the job into its outbox. *)
ArtifactWritten(stage) ==
    /\ runpc # "start"
    /\ <<stage, JobId>> \notin outbox
    /\ outbox' = outbox \cup {<<stage, JobId>>}
    /\ UNCHANGED <<until, completed, runpc, stageIdx, succeeded>>
    /\ UNCHANGED notPipeline

(* An artifact of the job disappears: the next stage or a clean removes    *)
(* it.                                                                     *)
ArtifactRemoved(stage) ==
    /\ <<stage, JobId>> \in outbox
    /\ outbox' = outbox \ {<<stage, JobId>>}
    /\ UNCHANGED <<until, completed, runpc, stageIdx, succeeded>>
    /\ UNCHANGED notPipeline

(* run_pipeline: submit_heightmap_job, the prints, completed = all False,  *)
(* and the first `while True`.                                             *)
RunStart ==
    /\ runpc = "start"
    /\ completed' = [stage \in StageSet |-> FALSE]
    /\ runpc' = "check"
    /\ stageIdx' = 1
    /\ UNCHANGED <<outbox, until, succeeded>>
    /\ UNCHANGED notPipeline

(* One turn of `for stage in PIPELINE_STAGES`: a stage already completed   *)
(* is skipped, for another its check is run and, if it succeeds, the stage *)
(* is marked completed.                                                    *)
RunCheck ==
    /\ runpc = "check"
    /\ stageIdx <= Len(PipelineStages)
    /\ LET stage == PipelineStages[stageIdx]
       IN  IF completed[stage]
           THEN UNCHANGED <<completed, succeeded>>
           ELSE /\ completed' = [completed EXCEPT
                                    ![stage] = StageCompletionCheck(stage, JobId)]
                /\ succeeded' = IF <<stage, JobId>> \in outbox
                                THEN succeeded \cup {stage} ELSE succeeded
    /\ stageIdx' = stageIdx + 1
    /\ UNCHANGED <<outbox, until, runpc>>
    /\ UNCHANGED notPipeline

(* After the loop: the progress is printed; completed.get(args.until)      *)
(* true ends run_pipeline.                                                 *)
RunReturn ==
    /\ runpc = "check"
    /\ stageIdx > Len(PipelineStages)
    /\ completed[until]
    /\ runpc' = "returned"
    /\ stageIdx' = 0
    /\ UNCHANGED <<outbox, until, completed, succeeded>>
    /\ UNCHANGED notPipeline

(* The same with the target not completed: time.sleep(1) and the next      *)
(* `while True`.                                                           *)
RunSleep ==
    /\ runpc = "check"
    /\ stageIdx > Len(PipelineStages)
    /\ ~completed[until]
    /\ stageIdx' = 1
    /\ UNCHANGED <<outbox, until, completed, runpc, succeeded>>
    /\ UNCHANGED notPipeline

(* Paths are the sequences of their components, "/" first in an absolute  *)
(* path; a text names a path by its components, among them ".".            *)
RepoRoot == <<"/", "repo">>

(* Path(text): pathlib drops the components ".", so Path("") is the empty  *)
(* relative path.                                                          *)
PathOf(text) == SelectSeq(text, LAMBDA part : part # ".")

(* The working directories mapgenctl is started in. *)
Cwds == {RepoRoot, RepoRoot \o <<"tools">>, <<"/", "tmp">>}

(* MAPGEN_LOG_ROOT: not set, set to the empty string, to a relative path   *)
(* or to an absolute one.                                                  *)
Environs ==
    {NoneStr, <<>>, <<"out">>, <<".", "logs">>, <<"/", "var", "log">>, RepoRoot \o <<"logs">>}

JobIds == {JobId, <<"a">>, <<"a", "job">>}

NoObject == [job_id |-> NoneStr]

(* The process as main() finds it, started in the repository with          *)
(* MAPGEN_LOG_ROOT not set, and before it builds a TailManager or a        *)
(* JobLogger.                                                              *)
InitRoot ==
    /\ environ = NoneStr
    /\ cwd = RepoRoot
    /\ tailer = NoObject
    /\ logger = NoObject

(* The process started in any directory with any MAPGEN_LOG_ROOT. *)
InitAnyRoot ==
    /\ environ \in Environs
    /\ cwd \in Cwds
    /\ tailer = NoObject
    /\ logger = NoObject

(* os.environ.get(name, default) *)
EnvironGet(default) == IF environ = NoneStr THEN default ELSE environ

(* TailManager.__init__: Path(os.environ.get("MAPGEN_LOG_ROOT", "./logs")) *)
TailerLogRoot == PathOf(EnvironGet(<<".", "logs">>))

(* joblog.log_root(): the value if it is set and not empty, otherwise      *)
(* Path(__file__).resolve().parents[3] / "logs".                           *)
LogRoot ==
    IF environ \notin {NoneStr, <<>>} THEN PathOf(environ) ELSE RepoRoot \o <<"logs">>

(* TailManager(job_id, out_queue) *)
NewTailManager(job_id) ==
    /\ tailer = NoObject
    /\ tailer' = [job_id |-> job_id, job_dir |-> TailerLogRoot \o <<"jobs">> \o job_id]
    /\ UNCHANGED <<environ, cwd, logger>>
    /\ UNCHANGED notRoot

(* JobLogger(job_id): self.path = job_log_path(job_id) *)
NewJobLogger(job_id) ==
    /\ logger = NoObject
    /\ logger' = [job_id |-> job_id,
                  path |-> LogRoot \o <<"jobs">> \o job_id \o <<"mapgenctl.log">>]
    /\ UNCHANGED <<environ, cwd, tailer>>
    /\ UNCHANGED notRoot

(* Stage names are the sequences of their parts: "treeplanter" is "tree"   *)
(* and "planter".  A part is in lower case or capitalized.                 *)
NameParts == {"heightmap", "tiler", "Tiler", "weather", "tree", "planter", "Planter"}

StageNames == UNION {[1..k -> NameParts] : k \in 1..MaxNameLen}

(* STAGE_DIRECTORY_MAP, the same in cli.py and utils/paths.py. *)
MappedStages == {<<"heightmap">>, <<"tiler">>, <<"weather">>, <<"tree", "planter">>}

StageDirectoryMap(stage) ==
    CASE stage = <<"heightmap">> -> <<"Heightmap">>
      [] stage = <<"tiler">> -> <<"Tiler">>
      [] stage = <<"weather">> -> <<"Weather", "Analyses">>
      [] stage = <<"tree", "planter">> -> <<"Tree", "Planter">>

(* str.lower() and str.capitalize() on a part, and str.capitalize() on a   *)
(* name: the first character in upper case, all others in lower case.      *)
LowerPart(part) ==
    CASE part = "Tiler" -> "tiler"
      [] part = "Planter" -> "planter"
      [] OTHER -> part

CapitalizePart(part) ==
    CASE part \in {"tiler", "Tiler"} -> "Tiler"
      [] part \in {"planter", "Planter"} -> "Planter"
      [] part = "heightmap" -> "Heightmap"
      [] part = "weather" -> "Weather"
      [] part = "tree" -> "Tree"

Capitalize(name) ==
    [i \in 1..Len(name) |-> IF i = 1 THEN CapitalizePart(name[1]) ELSE LowerPart(name[i])]

(* resolved_stage_outbox(stage) of cli.py: what it raises, the path it     *)
(* returns.                                                                *)
ResolvedStageOutbox(stage) ==
    IF stage \notin MappedStages THEN [outcome |-> "KeyError", path |-> <<>>]
    ELSE [outcome |-> "ok",
          path |-> << <<"~">>, <<"Code">>, <<"RTSColonyTerrainGenerator">>,
                      <<"MapGenerator">>, StageDirectoryMap(stage), <<"outbox">> >>]

(* stage_dir(stage) of utils/paths.py, and the three functions on it. *)
StageDir(stage) ==
    LET dir_name == IF stage \in MappedStages THEN StageDirectoryMap(stage)
                    ELSE Capitalize(stage)
    IN  [outcome |-> "ok", path |-> << <<"repo_root">>, <<"MapGenerator">>, dir_name >>]

StageSubdir(stage, subdir) ==
    [outcome |-> "ok", path |-> Append(StageDir(stage).path, <<subdir>>)]

Resolvers ==
    {"resolved_stage_outbox", "stage_dir", "stage_inbox", "stage_outbox", "stage_archive"}

ResolverResult(fn, stage) ==
    CASE fn = "resolved_stage_outbox" -> ResolvedStageOutbox(stage)
      [] fn = "stage_dir" -> StageDir(stage)
      [] fn = "stage_inbox" -> StageSubdir(stage, "inbox")
      [] fn = "stage_outbox" -> StageSubdir(stage, "outbox")
      [] fn = "stage_archive" -> StageSubdir(stage, "archive")

(* A caller resolves a path for a stage name. *)
Resolve(fn, stage) ==
    /\ last' = [op |-> "resolve", fn |-> fn, stage |-> stage,
                outcome |-> ResolverResult(fn, stage).outcome,
                path |-> ResolverResult(fn, stage).path]
    /\ UNCHANGED <<fileExists, fileData, tail, bytesRead, truncs>>
    /\ UNCHANGED notTail

(* The members a writer puts into one structured record. *)
MemberLists == UNION {[1..k -> MemberTokens] : k \in 0..MaxMembers}

(* heightmap.log.jsonl is written: one record. *)
WriteRecord(members) ==
    /\ ~fileExists
    /\ fileExists' = TRUE
    /\ fileData' = <<"{">> \o members \o <<"}", "nl">>
    /\ last' = [op |-> "append"]
    /\ UNCHANGED <<tail, bytesRead, truncs>>
    /\ UNCHANGED notTail

(* One call of FileTail.poll by the tail of heightmap.log.jsonl. *)
PollRecord ==
    /\ fileExists
    /\ LET tl == AsManaged(tail, <<"heightmap">>, HeightmapJsonl, "jsonl")
           r  == TailPoll(tl, fileExists, fileData, now)
       IN  /\ tail' = Position(r.tail)
           /\ last' = [op |-> "pollrecord", tl |-> tl, lines |-> r.lines,
                       entries |-> r.entries, outcome |-> r.outcome]
    /\ UNCHANGED <<fileExists, fileData, bytesRead, truncs>>
    /\ UNCHANGED notTail

----------------------------------------------------------------------------
(* Specifications *)

NextTail ==
    \/ \E b \in TailBytes : AppendByte(b)
    \/ Truncate
    \/ PollTail

NextJson ==
    \/ \E b \in JsonBytes : AppendByte(b)
    \/ Truncate
    \/ PollTail

NextTailText ==
    \/ \E b \in TextBytes : AppendByte(b)
    \/ PollTail

NextTailFault ==
    \/ \E b \in TailBytes : AppendByte(b)
    \/ Truncate
    \/ PollTail
    \/ \E where \in {"stat", "open"} : PollIOError(where)

NextTailRace ==
    \/ \E b \in {"x", "nl"} : last.op # "stat" /\ AppendByte(b)
    \/ PollStat
    \/ \E b \in {"x", "nl"} : AppendDuringPoll(b)
    \/ PollRead

NextMerger ==
    \/ Tick
    \/ \E e \in NextEntries : Ingest(e)
    \/ \E e \in NextEntries : IngestRaises(e)
    \/ Drain

NextPair ==
    \/ Tick
    \/ \E e \in NextEntries : Len(log) < MaxPairIngest /\ Ingest(e)
    \/ \E e \in NextEntries : Len(log) < MaxPairIngest /\ IngestRaises(e)
    \/ Drain
    \/ IngestB
    \/ IngestRaisesB
    \/ DrainB

NextViewer ==
    \/ AppendLine(MapgenctlLog, PlainRecord)
    \/ \E line \in {JsonRecord, JsonNumber} : AppendLine(HeightmapJsonl, line)
    \/ now < ViewerClock /\ Tick
    \/ PStop
    \/ PTickStart
    \/ PPoll
    \/ PPollRaises
    \/ POffer
    \/ PTickEnd
    \/ PWake
    \/ RQuit
    \/ RNoKey
    \/ RGet
    \/ RGetRaises
    \/ RFrame
    \/ RReturn
    \/ ProcessExit

NextJobDir ==
    \/ ~jobFiles[MapgenctlLog].exists /\ AppendLine(MapgenctlLog, PlainRecord)
    \/ \E f \in DirFiles \ {MapgenctlLog} :
           ~jobFiles[f].exists /\ AppendLine(f, JsonRecord)
    \/ now < ViewerClock /\ Tick
    \/ PTickStart
    \/ PPoll
    \/ POffer
    \/ PTickEnd
    \/ PWake

NextPlain ==
    \/ /\ ~fileExists
       /\ \E ts \in TsParts, job \in JobParts, stage \in StageParts,
             level \in LevelParts, msg \in MsgParts, g1, g2, g3, g4 \in Gaps,
             rest \in {<<>>, PlainRecord} :
             WritePlain(ts \o g1 \o job \o g2 \o stage \o g3 \o level \o g4 \o msg, rest)
    \/ PollPlain

NextRecord ==
    \/ /\ ~fileExists
       /\ \E members \in MemberLists : WriteRecord(members)
    \/ PollRecord

NextViewerStamped ==
    \/ AppendLine(MapgenctlLog, PlainRecord)
    \/ \E line \in StampedRecords : AppendLine(HeightmapJsonl, line)
    \/ now < ViewerClock /\ Tick
    \/ PStop
    \/ PTickStart
    \/ PPoll
    \/ POffer
    \/ PTickEnd
    \/ PWake
    \/ RQuit
    \/ RNoKey
    \/ RGet
    \/ RFrame
    \/ RReturn
    \/ ProcessExit

NextJobLog ==
    \E ts \in {<<"T1">>, <<"T2">>}, stage \in LogStages, level \in LogLevels,
       message \in LogMessages :
        JobLog(ts, stage, level, message)

NextLogTail ==
    \/ \E c \in AnyCalls : LogCall(<<"T1">>, c)
    \/ PollPlain

NextLogRoot ==
    \/ \E job_id \in JobIds : NewTailManager(job_id)
    \/ \E job_id \in JobIds : NewJobLogger(job_id)

NextPipeline ==
    \/ \E stage \in StageSet : ArtifactWritten(stage)
    \/ \E stage \in StageSet : ArtifactRemoved(stage)
    \/ RunStart
    \/ RunCheck
    \/ RunReturn
    \/ RunSleep

NextPaths == \E fn \in Resolvers, stage \in StageNames : Resolve(fn, stage)

Init == InitTail /\ InitMerger /\ InitPair /\ InitViewer /\ InitRoot /\ InitPipeline

(* The same with a job directory that can hold any of DirFiles. *)
InitWithJobDir ==
    InitTail /\ InitMerger /\ InitPair /\ InitJobDir /\ InitRoot /\ InitPipeline

(* The same in any working directory with any MAPGEN_LOG_ROOT. *)
InitWithAnyRoot ==
    InitTail /\ InitMerger /\ InitPair /\ InitViewer /\ InitAnyRoot /\ InitPipeline

(* The same with any --until. *)
InitWithAnyPipeline ==
    InitTail /\ InitMerger /\ InitPair /\ InitViewer /\ InitRoot /\ InitAnyPipeline

Next == NextTail

(* A tail of a file of arbitrary bytes. *)
Spec == Init /\ [][Next]_vars

(* A tail of a file of structured records. *)
SpecJson == Init /\ [][NextJson]_vars

(* A tail of a growing file of text, polled at any points of its growth. *)
SpecTailText == Init /\ [][NextTailText]_vars

(* A tail of a file whose reads can fail. *)
SpecTailFault == Init /\ [][NextTailFault]_vars

(* A tail whose source is appended to while a poll is in progress. *)
SpecTailRace == Init /\ [][NextTailRace]_vars

(* The merger as the render loop drives it. *)
SpecMerger == Init /\ [][NextMerger]_vars

(* The same, with a render loop that keeps calling drain() while the clock *)
(* advances.                                                               *)
SpecMergerLive == SpecMerger /\ WF_vars(Drain) /\ WF_vars(Tick)

(* Two mergers with the same entries and different drain schedules. *)
SpecPair == Init /\ [][NextPair]_vars

(* run_log_viewer on a job whose logs are being written. *)
SpecViewer == Init /\ [][NextViewer]_vars

(* run_log_viewer on a job whose stage stamps every record, as JobLogger   *)
(* does: no poll and no ingest raises.                                     *)
SpecViewerStamped == Init /\ [][NextViewerStamped]_vars

(* The poller thread on a job directory with every file the discovery can *)
(* find.                                                                   *)
SpecJobDir == InitWithJobDir /\ [][NextJobDir]_vars

(* A plain-text tail on a log that not only JobLogger writes. *)
SpecPlain == Init /\ [][NextPlain]_vars

(* JobLogger writing the log of a job. *)
SpecJobLog == Init /\ [][NextJobLog]_vars

(* JobLogger writing the log of a job and a plain-text tail reading it. *)
SpecLogTail == Init /\ [][NextLogTail]_vars

(* The two resolutions of the job's log directory in one process. *)
SpecLogRoot == InitWithAnyRoot /\ [][NextLogRoot]_vars

(* run_pipeline polling the outboxes while the stages work. *)
SpecPipeline == InitWithAnyPipeline /\ [][NextPipeline]_vars

(* The stage path resolvers called with any stage name. *)
SpecPaths == Init /\ [][NextPaths]_vars

(* A tail on a log of one structured record. *)
SpecRecord == Init /\ [][NextRecord]_vars

----------------------------------------------------------------------------
(* Properties of FileTail *)

Polled == last.op = "poll"

(* The position after the last newline at or before position o of the file. *)
LineStart(o) ==
    LET nls == {k \in 1..o : fileData[k] = "nl"}
    IN  IF nls = {} THEN 0 ELSE CHOOSE k \in nls : \A j \in nls : j <= k

C4_BadLinesAreDropped ==
    Polled =>
        /\ last.outcome = "ok"
        /\ Len(last.entries)
             = Cardinality({i \in 1..Len(last.lines) : JsonLoads(last.lines[i]) = "object"})

(* C5: a poll whose read fails does not raise: it returns nothing and      *)
(* leaves offset, partial and seq as they were.                            *)
C5_ReadFailureIsSwallowed ==
    (Polled /\ last.fault # "none") =>
        /\ last.outcome = "ok"
        /\ last.entries = <<>>
        /\ tail = last.pre

(* C6: without truncation, a poll emits no more lines than the newlines   *)
(* it read, and a poll that starts in the middle of a line and reads the   *)
(* rest of that line with its newline emits exactly one line, the whole    *)
(* line as it stands in the source.                                        *)
C6_PartialLineHeldWhole ==
    (truncs = 0 /\ Polled) =>
        /\ Len(last.lines) <= CountNl(last.data)
        /\ ( /\ last.pre.offset >= 1
             /\ fileData[last.pre.offset] # "nl"
             /\ CountNl(last.data) = 1
             /\ fileData[Len(fileData)] = "nl" )
           => last.lines
                = << Decode(SubSeq(fileData, LineStart(last.pre.offset) + 1,
                                   Len(fileData) - 1)) >>

(* C7: a poll that sees a size below the stored offset reads the whole new *)
(* content from its start, stores the new size as offset and yields the    *)
(* lines and the partial line of the new content alone, as a new tail      *)
(* would.                                                                  *)
C7_TruncationRereadsFromStart ==
    (Polled /\ last.size < last.pre.offset) =>
        LET fresh == ReadNewLines([NewTail EXCEPT !.seq = last.pre.seq],
                                  TRUE, last.size, fileData)
        IN  /\ last.data = fileData
            /\ tail.offset = last.size
            /\ tail.partial = fresh.tail.partial
            /\ last.lines = fresh.lines

(* C7 witness: a poll saw a shrunken, non-empty source while a partial     *)
(* line of the old content was buffered.                                   *)
C7_Witness ==
    /\ Polled
    /\ last.size < last.pre.offset
    /\ last.size > 0
    /\ last.pre.partial # <<>>
    /\ tail.partial # last.pre.partial

(* C18: every poll numbers its entries above the seq the tail had before   *)
(* it, in strictly increasing order, and leaves the tail's seq at or above *)
(* the last number it gave; so no number is given twice over the life of   *)
(* the tail, whatever lines were dropped and whatever truncation was seen. *)
C18_SeqStrictlyIncreasing ==
    [][ last'.op = "poll"
          => LET es == last'.entries
             IN  /\ tail'.seq >= tail.seq
                 /\ \A i \in 1..Len(es) :
                       es[i].seq > tail.seq /\ es[i].seq <= tail'.seq
                 /\ \A i, j \in 1..Len(es) : i < j => es[i].seq < es[j].seq
      ]_vars

(* C18 witness: a poll that saw the source truncated and numbered the      *)
(* record of the new content after the records of earlier polls.           *)
C18_Witness ==
    /\ Polled
    /\ last.size < last.pre.offset
    /\ last.pre.seq >= 1
    /\ Len(last.entries) = 1
    /\ last.entries[1].seq = last.pre.seq + 1

----------------------------------------------------------------------------
(* Properties of EventMerger *)

Stamped(r) == r.ts # None

(* The ordering key of a returned entry; keys of one type are comparable. *)
SameKeyType(r, q) == Stamped(r) = Stamped(q)

KeyVal(r) == IF Stamped(r) THEN r.ts ELSE r.arr

Returned(k) == \E i \in 1..Len(emitted) : emitted[i].id = k

C10_HeldUntilDelay ==
    /\ \A i \in 1..Len(emitted) :
          ~Stamped(emitted[i])
              => (emitted[i].age >= MaxDelay \/ emitted[i].over)
    /\ (mop = "drain" /\ buffer # <<>> /\ buffer[1].entry.ts = None)
          => now - buffer[1].entry.arr < MaxDelay

(* C10 witness: a drain returned an entry without timestamp at the age of  *)
(* max_delay and held a younger one back.                                  *)
C10_Witness ==
    /\ mop = "drain"
    /\ buffer # <<>>
    /\ buffer[1].entry.ts = None
    /\ \E i \in 1..Len(emitted) :
          /\ ~Stamped(emitted[i])
          /\ ~emitted[i].over
          /\ emitted[i].age = MaxDelay
          /\ now - emitted[i].arr = MaxDelay

(* C11: the entries with timestamps in the buffer when drain() is called   *)
(* are those ingested since the drain before (a drain leaves none behind), *)
(* and the drain returns all of them, each once, in non-decreasing         *)
(* timestamp order, whatever the order of their ingestion.                 *)
C11_BatchInTimestampOrder ==
    /\ [](mop = "drain" => \A i \in 1..Len(buffer) : buffer[i].entry.ts = None)
    /\ [][ ( /\ mop' = "drain"
             /\ buffer # <<>>
             /\ \A i \in 1..Len(buffer) : buffer[i].entry.ts # None )
           => LET new == SubSeq(emitted', Len(emitted) + 1, Len(emitted'))
              IN  /\ buffer' = <<>>
                  /\ Len(new) = Len(buffer)
                  /\ \A i \in 1..Len(buffer) :
                        \E j \in 1..Len(new) : new[j].id = buffer[i].seq
                  /\ \A i, j \in 1..Len(new) : i < j => new[i].ts <= new[j].ts
         ]_vars

(* C11 witness: T2 was ingested, then T1, and one drain call returned T1   *)
(* and then T2.                                                            *)
C11_Witness ==
    /\ mop = "drain"
    /\ buffer = <<>>
    /\ mseq = 2
    /\ Len(emitted) = 2
    /\ emitted[1].nIn = 2 /\ emitted[2].nIn = 2
    /\ emitted[1].id = 2 /\ emitted[2].id = 1
    /\ Stamped(emitted[1])
    /\ emitted[1].ts < emitted[2].ts

(* The numbers of the entries the first merger returned, in order. *)
EmittedIds == [i \in 1..Len(emitted) |-> emitted[i].id]

(* Both mergers have ingested the same entries and hold none back. *)
BothAtRest ==
    /\ mseqB = mseq
    /\ ~crashed /\ ~crashedB
    /\ buffer = <<>> /\ bufferB = <<>>

(* The keys of the ingested entries are of one type and non-decreasing in  *)
(* the order of ingestion.                                                 *)
KeysAscend ==
    \A i, j \in 1..Len(log) :
        i < j => /\ (log[i].ts = None) = (log[j].ts = None)
                 /\ Key(log[i]).val <= Key(log[j]).val

----------------------------------------------------------------------------
(* Properties of TailManager and run_log_viewer *)

(* The poller is inside a call of tick(). *)
InTick == ppc \in {"poll", "offer"}

(* C12: the channel never holds more than its capacity; a put_nowait is    *)
(* never blocked; on a full channel it leaves the queued entries as they   *)
(* are and loses the offered one, on any other it appends the offered one; *)
(* either way tick() goes on with the next entry or the next tail.         *)
C12_FullChannelDropsNewest ==
    /\ [](Len(log_queue) <= QueueMax)
    /\ [](ppc = "offer" => ENABLED POffer)
    /\ [][ (ppc = "offer" /\ pending' # pending)
           => /\ ppc' \in {"offer", "poll"}
              /\ pending' = Tail(pending)
              /\ IF Len(log_queue) >= QueueMax
                 THEN log_queue' = log_queue /\ lastPut' = "Full"
                 ELSE log_queue' = Append(log_queue, Head(pending))
         ]_vars

(* C12 witness: an entry was offered to the full channel and dropped, and  *)
(* tick() went on.                                                         *)
C12_Witness ==
    /\ lastPut = "Full"
    /\ Len(log_queue) = QueueMax
    /\ InTick

(* C13: no two tails have the same name; no step removes, renames or moves *)
(* a tail; and offset, partial and seq of a tail change only by the poll   *)
(* of that tail, so discovery never builds a tail anew.                    *)
C13_OneTailPerNameKept ==
    /\ [](\A i, j \in 1..Len(tails) : i # j => tails[i].name # tails[j].name)
    /\ [][ /\ Len(tails') >= Len(tails)
           /\ \A i \in 1..Len(tails) :
                 /\ tails'[i].name = tails[i].name
                 /\ tails'[i].file = tails[i].file
                 /\ tails'[i].kind = tails[i].kind
                 /\ tails'[i] # tails[i]
                       => /\ ppc = "poll" /\ pidx = i
                          /\ tails'[i].seq >= tails[i].seq
         ]_vars

(* C13 witness: a later tick has done its discovery and both tails stand   *)
(* where the polls of an earlier tick left them.                           *)
C13_Witness ==
    /\ ppc = "poll" /\ pidx = 1
    /\ Len(tails) = 2
    /\ tails[1].offset > 0 /\ tails[1].seq > 0
    /\ tails[2].offset > 0 /\ tails[2].seq > 0

(* C14: run_log_viewer has not returned while a tick of the poller is in   *)
(* progress.                                                               *)
C14_NoReturnDuringTick ==
    rpc = "returned" => ~InTick

(* C15: after the quit key the render loop takes no entry, drains and      *)
(* draws no more; the poller, once it found the flag cleared, starts no    *)
(* tick; and a tick in progress ends only by itself, by returning or by    *)
(* raising.                                                                *)
C15_CooperativeCancellation ==
    [][ /\ rpc \in {"exitsleep", "returned", "exited"}
              => /\ UNCHANGED <<buffer, mseq, emitted, visible_lines>>
                 /\ Len(log_queue') >= Len(log_queue)
        /\ ppc = "done" => ppc' = "done"
        /\ InTick => ppc' \in {"poll", "offer", "sleep", "dead"}
      ]_vars

(* C16: the intake of a render cycle is never blocked, it ends only with   *)
(* the channel empty, and the cycle then is at the next cancellation check *)
(* with the frame drawn.                                                   *)
C16_CycleEmptiesChannelAndRedraws ==
    /\ [](rpc = "intake" => ENABLED (RGet \/ RGetRaises \/ RFrame))
    /\ [][ (rpc = "intake" /\ rpc' # "intake")
           => /\ log_queue = <<>>
              /\ rpc' = "top"
              /\ mop' = "drain"
         ]_vars

(* The stage logs that exist are tracked, and so is mapgenctl.log. *)
AllDiscovered(ts, files) ==
    \A f \in DOMAIN files :
        files[f].exists =>
            /\ f = MapgenctlLog => Tracked(ts, <<"mapgenctl">>)
            /\ IsStageLog(f) => Tracked(ts, StageOf(f))

(* C17: a tick starts with the discovery, after which every log that       *)
(* exists is tracked, with mapgenctl.log before the stage logs found in    *)
(* the same tick; it then polls the tails from the first to the last, the  *)
(* new ones too, offers every entry each poll returned, and returns only   *)
(* after the last tail.                                                    *)
C17_TickDiscoversPollsOffers ==
    [][ /\ (ppc = "top" /\ ppc' # "top" /\ running)
              => /\ ppc' = "poll" /\ pidx' = 1
                 /\ AllDiscovered(tails', jobFiles)
                 /\ \A i \in (Len(tails) + 1)..Len(tails') :
                       tails'[i].kind = "plain" => i = Len(tails) + 1
        /\ (ppc = "poll" /\ pidx <= Len(tails) /\ ppc' # "killed")
              => LET tl == tails[pidx]
                     r  == TailPoll(tl, jobFiles[tl.file].exists,
                                    jobFiles[tl.file].data, now)
                 IN  \/ UNCHANGED <<tails, ppc, pidx, pending>>
                     \/ /\ pending' = r.entries
                        /\ IF r.entries = <<>> THEN ppc' = "poll" /\ pidx' = pidx + 1
                           ELSE ppc' = "offer" /\ pidx' = pidx
        /\ (ppc = "offer" /\ ppc' = "poll") => pending' = <<>> /\ pidx' = pidx + 1
        /\ (InTick /\ ppc' \notin {"poll", "offer", "killed"})
              => ppc' = "sleep" /\ ppc = "poll" /\ pidx > Len(tails)
      ]_vars

(* The lines of all entries returned so far, in the order returned. *)
AllLines == [i \in 1..Len(emitted) |-> FormatLine(log[emitted[i]])]

(* C19: the transcript never holds more lines than its capacity, and it is *)
(* the last lines appended, in their order: each append to a full          *)
(* transcript evicted the oldest line and no other.                        *)
C19_TranscriptKeepsNewest ==
    /\ Len(visible_lines) <= MaxVisible
    /\ LET n == Len(AllLines)
           k == IF n > MaxVisible THEN n - MaxVisible ELSE 0
       IN  visible_lines = SubSeq(AllLines, k + 1, n)

(* C19 witness: more lines were appended than the transcript holds, and    *)
(* the line evicted differs from the lines kept.                           *)
C19_Witness ==
    /\ Len(AllLines) > MaxVisible
    /\ Len(visible_lines) = MaxVisible
    /\ \A i \in 1..Len(visible_lines) : visible_lines[i] # AllLines[1]

(* A step of the poller thread, and a step of the render loop. *)
PollerStep == <<ppc, pidx, pending, pwake>>' # <<ppc, pidx, pending, pwake>>

RenderStep == rpc' # rpc \/ mop' # mop \/ mseq' # mseq

(* C20: tail state changes and the channel grows only by a step of the     *)
(* poller, which leaves merger and transcript alone and takes nothing from *)
(* the channel; merger and transcript change and the channel shrinks only  *)
(* by a step of the render loop, which leaves the tails alone and puts     *)
(* nothing into the channel.                                               *)
C20_SingleProducerSingleConsumer ==
    [][ /\ tails' # tails
              => /\ PollerStep
                 /\ UNCHANGED <<buffer, mseq, log, emitted, visible_lines, rpc>>
                 /\ log_queue' = log_queue
        /\ log_queue' # log_queue
              => \/ /\ PollerStep
                    /\ UNCHANGED <<buffer, mseq, log, emitted, visible_lines, rpc>>
                    /\ log_queue' = Append(log_queue, Head(pending))
                 \/ /\ RenderStep
                    /\ UNCHANGED pollerVars
                    /\ log_queue' = Tail(log_queue)
        /\ <<buffer, mseq, log, emitted, visible_lines>>'
                 # <<buffer, mseq, log, emitted, visible_lines>>
              => /\ RenderStep
                 /\ UNCHANGED pollerVars
      ]_vars

(* C20 witness: the poller has put an entry into the channel while the     *)
(* render loop, in its intake, had taken another one.                      *)
C20_Witness ==
    /\ rpc = "intake"
    /\ mseq >= 1
    /\ log_queue # <<>>
    /\ InTick
    /\ lastPut = "none"
    /\ log_queue[Len(log_queue)].tail # log[mseq].tail

----------------------------------------------------------------------------
(* The live view without sources *)

(* No log of the job exists (nor, then, need its directory). *)
NoSource == \A f \in AllFiles : ~jobFiles[f].exists

(* C21: while no source exists the view keeps running: there is no tail,   *)
(* nothing in the channel, an empty transcript, neither thread has ended   *)
(* with an error, and until the user quits both loops go on; a tick that   *)
(* starts when a source exists tracks it with a tail on its file, a new    *)
(* tail starting at the beginning, and a poll that returns has read the    *)
(* tail's file to its end.                                                 *)
C21_RunsWithoutSources ==
    /\ [](NoSource => /\ tails = <<>>
                      /\ log_queue = <<>>
                      /\ visible_lines = <<>>
                      /\ ~crashed
                      /\ ppc # "dead"
                      /\ rpc # "raised"
                      /\ running => /\ rpc \in {"top", "intake"}
                                    /\ ppc \in {"top", "poll", "sleep"})
    /\ [][ /\ PTickStart =>
                /\ \A f \in AllFiles :
                      jobFiles[f].exists =>
                          \E i \in 1..Len(tails') : tails'[i].file = f
                /\ \A i \in (Len(tails) + 1)..Len(tails') :
                      tails'[i].offset = 0 /\ tails'[i].seq = 0
           /\ PPoll => tails'[pidx].offset = Len(jobFiles[tails[pidx].file].data)
         ]_vars

(* C21 witness: with no source, a tick has returned and a frame has been   *)
(* drawn, and the render loop is in its next cycle.                        *)
C21_Witness ==
    /\ NoSource
    /\ ppc = "sleep"
    /\ mop = "drain"
    /\ rpc = "intake"
    /\ visible_lines = <<>>

----------------------------------------------------------------------------
(* Properties of the entries a tail builds *)

PolledPlain == last.op = "pollplain"

(* The line has the form <timestamp> [job=<id>] [stage=<stage>] <LEVEL>    *)
(* <message>: a timestamp without blanks, an id and a stage without "]",   *)
(* and a level of word characters, none of them empty, with one or more    *)
(* blanks between the fields, the message being what follows the blanks    *)
(* after the level; and the fields satisfy Fields.                         *)
Format(line, Fields(_)) ==
    LET n == Len(line)
    IN  \E a \in 2..n :
          /\ \A k \in 1..(a - 1) : line[k] \notin Space
          /\ \E b \in (a + 1)..n :
               /\ \A k \in a..(b - 1) : line[k] \in Space
               /\ line[b] = "[job="
               /\ \E c \in (b + 2)..n :
                    /\ \A k \in (b + 1)..(c - 1) : line[k] # "]"
                    /\ line[c] = "]"
                    /\ \E d \in (c + 2)..n :
                         /\ \A k \in (c + 1)..(d - 1) : line[k] \in Space
                         /\ line[d] = "[stage="
                         /\ \E e \in (d + 2)..n :
                              /\ \A k \in (d + 1)..(e - 1) : line[k] # "]"
                              /\ line[e] = "]"
                              /\ \E f \in (e + 2)..n, g \in (e + 3)..n, h \in (e + 4)..(n + 1) :
                                   /\ f < g /\ g < h
                                   /\ \A k \in (e + 1)..(f - 1) : line[k] \in Space
                                   /\ \A k \in f..(g - 1) : line[k] \in Word
                                   /\ \A k \in g..(h - 1) : line[k] \in Space
                                   /\ h <= n => line[h] \notin Space
                                   /\ Fields([ts     |-> SubSeq(line, 1, a - 1),
                                              job_id |-> SubSeq(line, b + 1, c - 1),
                                              stage  |-> SubSeq(line, d + 1, e - 1),
                                              level  |-> SubSeq(line, f, g - 1),
                                              msg    |-> SubSeq(line, h, n)])

(* The lines of that form among the lines read, in their order. *)
FormattedLines == SelectSeq(last.lines, LAMBDA line : Format(line, LAMBDA m : TRUE))

(* C22: a poll of the plain-text tail returns one entry for each line read *)
(* that has the form, in the order of the lines and numbered on from the   *)
(* tail's seq, with timestamp, job id, stage, level and message as the     *)
(* line gives them, and nothing for any other line.                        *)
C22_EntryForEachFormattedLine ==
    PolledPlain =>
        /\ last.outcome = "ok"
        /\ Len(last.entries) = Len(FormattedLines)
        /\ \A i \in 1..Len(last.entries) :
              LET entry == last.entries[i]
              IN  /\ entry.seq = last.tl.seq + i
                  /\ Format(FormattedLines[i],
                            LAMBDA m : /\ entry.ts = Timestamp(m.ts)
                                       /\ entry.job_id = m.job_id
                                       /\ entry.stage = m.stage
                                       /\ entry.level = m.level
                                       /\ entry.msg = m.msg)

(* C22 witness: of two lines read the first, which has no level, was       *)
(* dropped, and the second gave an entry whose stage is not the tail's.    *)
C22_Witness ==
    /\ PolledPlain
    /\ Len(last.lines) = 2
    /\ ~LinePattern(last.lines[1]).matched
    /\ last.lines[1][1] = "T2"
    /\ Len(last.entries) = 1
    /\ last.entries[1].stage = <<"S">>
    /\ last.entries[1].stage # last.tl.name
    /\ last.entries[1].seq = 1

(* C23 as stated: the event and the raw of an entry of the plain-text tail *)
(* are both the text of the whole line.                                    *)
C23_EventAndRawAreTheLine ==
    PolledPlain =>
        \A i \in 1..Len(last.entries) :
            /\ last.entries[i].event = FormattedLines[i]
            /\ last.entries[i].raw.type = "str"
            /\ last.entries[i].raw.val = FormattedLines[i]

(* C23: an entry of the plain-text tail has no event, and its raw is a     *)
(* dict of one item, "line", holding the text of the whole line.           *)
C23_NoEventRawHoldsLine ==
    PolledPlain =>
        \A i \in 1..Len(last.entries) :
            /\ last.entries[i].event = NoneStr
            /\ last.entries[i].raw = [type |-> "dict",
                                      val  |-> {<<"line", FormattedLines[i]>>}]

(* C23 witness: two lines read gave two entries, the first from a line     *)
(* with more than one blank between its fields.                            *)
C23_Witness ==
    /\ PolledPlain
    /\ Len(last.entries) = 2
    /\ Len(last.lines[1]) > Len(last.lines[2])
    /\ last.entries[1].raw # last.entries[2].raw
    /\ last.entries[2].event = NoneStr

PolledRecord == last.op = "pollrecord"

(* The record on the line has a member of that name; the value of the last *)
(* such member.                                                            *)
HasMember(line, name) ==
    \E i \in 2..(Len(line) - 1) : MemberName(line[i]) = name

ValueOfMember(line, name) ==
    LET i == CHOOSE k \in 2..(Len(line) - 1) :
                 /\ MemberName(line[k]) = name
                 /\ \A j \in (k + 1)..(Len(line) - 1) : MemberName(line[j]) # name
    IN  MemberValue(line[i])

(* C24: a poll that reads a structured record ends normally with one entry *)
(* for it: message, level, timestamp and event are the values of msg,      *)
(* level, ts and event, each None when the record has no such member; the  *)
(* job id is the tail's; the stage is the value of stage when the record   *)
(* has that member and the tail's stage when it has not.                   *)
C24_RecordFieldsMapped ==
    (PolledRecord /\ last.lines # <<>>) =>
        /\ last.outcome = "ok"
        /\ Len(last.entries) = 1
        /\ LET line  == last.lines[1]
               entry == last.entries[1]
               Get(name) == IF HasMember(line, name) THEN ValueOfMember(line, name)
                            ELSE NoneStr
           IN  /\ entry.msg = Get("msg")
               /\ entry.level = Get("level")
               /\ entry.event = Get("event")
               /\ entry.ts = IF Get("ts") = NoneStr THEN None ELSE Timestamp(Get("ts"))
               /\ entry.job_id = last.tl.job_id
               /\ entry.stage = IF HasMember(line, "stage") THEN ValueOfMember(line, "stage")
                                ELSE last.tl.name
               /\ entry.seq = last.tl.seq + 1

(* C24 witness: a record with a stage, a timestamp and an event and no     *)
(* message gave an entry of that stage, not the tail's, without message,   *)
(* and a record without stage gives one of the tail's.                     *)
C24_Witness ==
    /\ PolledRecord
    /\ Len(last.entries) = 1
    /\ last.entries[1].stage = <<"S">>
    /\ last.entries[1].stage # last.tl.name
    /\ last.entries[1].ts = 2
    /\ last.entries[1].event = <<"E">>
    /\ last.entries[1].msg = NoneStr
    /\ last.entries[1].level = <<"l">>
    /\ last.entries[1].job_id = JobId

----------------------------------------------------------------------------
(* Properties of the merger's tie-break *)

(* The entries a frame has just taken from the merger, as places in        *)
(* `emitted`.                                                              *)
Batch == (Len(emitted) + 1)..Len(emitted')

----------------------------------------------------------------------------
(* Properties of JobLogger *)

Logged == last.op = "log"

----------------------------------------------------------------------------
(* Properties of the stage path resolvers *)

(* C27: resolving a path for a stage name that STAGE_DIRECTORY_MAP does    *)
(* not hold raises, whichever resolver is called, and returns no path.     *)
C27_UnknownStageIsFatal ==
    (last.op = "resolve" /\ last.stage \notin MappedStages) =>
        /\ last.outcome # "ok"
        /\ last.path = <<>>

----------------------------------------------------------------------------
(* Properties of the merger on entries with and without timestamp *)

(* What a call of drain() would return now, as the numbers the merger gave *)
(* the entries.                                                            *)
WouldReturn ==
    LET out == DrainLoop(buffer, <<>>, now, mseq).out
    IN  {out[k].id : k \in 1..Len(out)}

(* C28: an entry with a timestamp is ready from its ingest on: whatever    *)
(* else the buffer holds, a call of drain() returns every entry with a     *)
(* timestamp that is in the buffer.                                        *)
C28_StampedReturnedByNextDrain ==
    \A i \in 1..Len(buffer) :
        buffer[i].entry.ts # None => buffer[i].seq \in WouldReturn

(* C29: no ingest raises, whatever the entries and their order: the render *)
(* loop never ends with an exception of merger.ingest.                     *)
C29_IngestNeverRaises ==
    /\ ~crashed
    /\ mop # "raise"
    /\ rpc # "raised"

----------------------------------------------------------------------------
(* Properties of a poll that races with the writer *)

(* C30: after a poll, whether or not the writer appended between its       *)
(* stat() and its read(), the offset is the number of bytes the tail has   *)
(* read, and these are the first bytes of the source, each read once.      *)
C30_OffsetIsBytesConsumed ==
    (last.op = "poll" /\ truncs = 0) =>
        /\ tail.offset = Len(bytesRead)
        /\ Len(bytesRead) <= Len(fileData)
        /\ bytesRead = SubSeq(fileData, 1, Len(bytesRead))

----------------------------------------------------------------------------
(* Properties of the size of the merger's buffer *)

(* C31: when drain() has returned the buffer holds at most max_buffer      *)
(* entries, and every call of ingest, also one that raises, makes the      *)
(* buffer one entry longer; nothing else changes the buffer.               *)
C31_BufferBoundedAfterDrain ==
    [][/\ mop' = "drain" => /\ Len(buffer') <= MaxBuffer
                            /\ Len(buffer') <= Len(buffer)
       /\ mop' \in {"ingest", "raise"} => Len(buffer') = Len(buffer) + 1
       /\ mop' \notin {"drain", "ingest", "raise"} => buffer' = buffer]_vars

(* C31 witness: ingests had grown the buffer above max_buffer, and a drain *)
(* popped the entries above it, though not ready otherwise, and left       *)
(* max_buffer entries.                                                     *)
C31_Witness ==
    /\ mop = "drain"
    /\ Len(buffer) = MaxBuffer
    /\ mseq > MaxBuffer
    /\ \E k \in 1..Len(emitted) :
           /\ emitted[k].over
           /\ emitted[k].ts = None
           /\ emitted[k].age < MaxDelay

----------------------------------------------------------------------------
(* Properties of the discovery of the job's logs *)

(* The files tick() looks for: mapgenctl.log and what *.log.jsonl matches. *)
IsJobLog(f) == f = MapgenctlLog \/ IsStageLog(f)

(* C32: when the discovery of a tick is done, every log file that exists   *)
(* in the job directory is the file of a tail, and no two tails read the   *)
(* same file.                                                              *)
C32_EveryLogFileHasItsTail ==
    [][(ppc = "top" /\ ppc' = "poll") =>
          /\ \A f \in DOMAIN jobFiles' :
                 (jobFiles'[f].exists /\ IsJobLog(f)) =>
                     \E i \in 1..Len(tails') : tails'[i].file = f
          /\ \A i, j \in 1..Len(tails') :
                 tails'[i].file = tails'[j].file => i = j]_vars

----------------------------------------------------------------------------
(* Properties of the poller thread *)

(* C33: the poller thread ends only by finding the running flag cleared   *)
(* (or with the process): no poll of a tail ends it, and a tick left       *)
(* before its last tail is one the process exit cut short.                 *)
C33_PollerSurvivesPollFailure ==
    /\ ppc # "dead"
    /\ ppc = "done" => ~running

----------------------------------------------------------------------------
(* Properties of the channel between the poller and the render loop *)

(* The entries of the tail named name in a sequence of entries. *)
OfTail(entries, name) == SelectSeq(entries, LAMBDA e : e.tail = name)

(* The seq of each entry is above the seq of the entry before it. *)
SeqAscending(entries) ==
    \A i \in 1..(Len(entries) - 1) : entries[i].seq < entries[i + 1].seq

(* C34: for every tail, the entries the merger has received, then the      *)
(* entries in the channel, then the entries of its poll still to be        *)
(* offered are in strictly increasing seq order, and none has a seq above  *)
(* the seq of the tail: they are a subsequence, in order, of the entries   *)
(* the tail emitted, whatever was dropped.                                 *)
C34_ChannelKeepsTailOrder ==
    \A k \in 1..Len(tails) :
        LET via == OfTail(log \o log_queue \o pending, tails[k].name)
        IN  /\ SeqAscending(via)
            /\ \A i \in 1..Len(via) : via[i].seq \in 1..tails[k].seq

(* C34 witness: the tail of the stage log emitted two entries, the second *)
(* was dropped on the full channel, and the merger has received the first  *)
(* and the entry of mapgenctl.log; nothing is on its way.                  *)
C34_Witness ==
    /\ \E k \in 1..Len(tails) : tails[k].name = <<"heightmap">> /\ tails[k].seq = 2
    /\ log_queue = <<>>
    /\ pending = <<>>
    /\ ppc = "sleep"
    /\ Len(OfTail(log, <<"heightmap">>)) = 1
    /\ OfTail(log, <<"heightmap">>)[1].seq = 1
    /\ OfTail(log, <<"mapgenctl">>) # <<>>

----------------------------------------------------------------------------
(* Properties of the lines of a content read in chunks *)

(* What a new tail does with the first n bytes of the source in one poll. *)
OnePoll(n) == ReadNewLines(NewTail, TRUE, n, SubSeq(fileData, 1, n))

(* C35: a poll of the first part of the content followed by a poll of the  *)
(* rest yields the lines one poll of the whole content yields.             *)
C35_LinesIndependentOfChunks ==
    (/\ last.op = "poll"
     /\ truncs = 0
     /\ last.pre.offset = Len(bytesRead) - Len(last.data)
     /\ last.pre.partial = OnePoll(last.pre.offset).tail.partial)
        => OnePoll(last.pre.offset).lines \o last.lines = OnePoll(tail.offset).lines

----------------------------------------------------------------------------
(* Properties of a source that is replaced *)

(* The complete lines of a content: its lines without an unfinished last   *)
(* line.                                                                   *)
CompleteLines(content) ==
    LET text  == Decode(content)
        lines == Splitlines(text)
    IN  IF lines # <<>> /\ ~EndsWithNewline(text) THEN Front(lines) ELSE lines

(* C36: the first poll that reads from a source rewritten after a          *)
(* truncation yields every complete line of the new content, whatever the  *)
(* offset the tail had stored.                                             *)
C36_RewrittenContentEmitted ==
    (Polled /\ truncs > 0 /\ bytesRead = last.data /\ tail.offset = Len(fileData))
        => last.lines = CompleteLines(fileData)

----------------------------------------------------------------------------
(* Properties of the round trip from JobLogger to PlainTextTail *)

(* A poll follows a call of log() that the tail had read everything        *)
(* before.                                                                 *)
PollAfterCall ==
    /\ last.op = "call"
    /\ tail.offset = Len(last.before)
    /\ tail.partial = <<>>
    /\ last'.op = "pollplain"

(* The poll returned one entry, with the values of the call. *)
EntryOfCall ==
    /\ Len(last'.entries) = 1
    /\ last'.entries[1].job_id = last.job_id
    /\ last'.entries[1].stage = last.stage
    /\ last'.entries[1].level = Upper(last.level)
    /\ last'.entries[1].msg = last.message

(* The arguments are in the range the format can carry: a job id and a     *)
(* stage that are not empty and hold no "]", a level that is not empty and *)
(* made of word characters, a message of one line that does not start with *)
(* white space.                                                            *)
Carried(c) ==
    /\ c.job_id # <<>> /\ \A i \in 1..Len(c.job_id) : c.job_id[i] # "]"
    /\ c.stage # <<>> /\ \A i \in 1..Len(c.stage) : c.stage[i] # "]"
    /\ c.level # <<>> /\ \A i \in 1..Len(c.level) : c.level[i] \in Word
    /\ \A i \in 1..Len(c.message) : c.message[i] \notin {"nl", "cr"}
    /\ c.message # <<>> => c.message[1] \notin Space

----------------------------------------------------------------------------
(* Properties of the log root *)

(* The place of a path in the file system: a relative path starts at the   *)
(* working directory.                                                      *)
Absolute(path) == IF path # <<>> /\ path[1] = "/" THEN path ELSE cwd \o path

(* C38: a TailManager and a JobLogger of the same job id in one process    *)
(* have the same directory: job_dir is the directory of the logger's file. *)
C38_TailerReadsWhereLoggerWrites ==
    (tailer # NoObject /\ logger # NoObject /\ tailer.job_id = logger.job_id)
        => Absolute(tailer.job_dir) = Absolute(Front(logger.path))

----------------------------------------------------------------------------
(* Properties of run_pipeline *)

(* C39: run_pipeline returns only when a completion check of the stage     *)
(* --until names has found the artifact of the submitted job, and a stage  *)
(* marked completed is never unmarked, whatever happens to its artifact.   *)
C39_ReturnsAfterUntilCompleted ==
    [][/\ runpc' = "returned" => (until \in succeeded' /\ completed'[until])
       /\ \A stage \in StageSet :
              (runpc # "start" /\ completed[stage]) => completed'[stage]
       /\ \A stage \in StageSet : completed'[stage] => stage \in succeeded'
       /\ until' = until]_vars

(* C39 witness: run_pipeline has returned for a target before the last     *)
(* stage; the artifact of the target is gone again, the artifact of        *)
(* another job lies in the outbox of a stage that was never completed.     *)
C39_Witness ==
    /\ runpc = "returned"
    /\ until = PipelineStages[2]
    /\ <<until, JobId>> \notin outbox
    /\ completed[until]
    /\ ~completed[PipelineStages[Len(PipelineStages)]]
    /\ <<PipelineStages[Len(PipelineStages)], OtherJobId>> \in outbox

====
